---- MODULE Spec2Model ----
(***************************************************************************)
(* A state-machine model of geemap/timelapse.py.  Every public function    *)
(* that is modelled is an operator that maps a "world" (the local file     *)
(* system and the trace of observable events of the running call) and the  *)
(* call's arguments to the world after the call and the call's outcome.    *)
(* An action is one complete call of one function.  The outcomes of the    *)
(* collaborators the module does not contain (the remote service, the      *)
(* imaging library, the command-line encoders) are inputs of the call.     *)
(***************************************************************************)
EXTENDS Integers, Sequences, FiniteSets, TLC

VARIABLES
    gifs,       \* GIF files on disk: name -> NoGif or [W, H, n]
    dirs,       \* directories that exist
    files,      \* other files that exist (mp4, png, jpg, temporary files)
    tools,      \* command-line tools installed on the machine
    s2_bands,   \* the default-argument object `bands` of sentinel2_timelapse
    call,       \* the last call: function name and arguments
    ret,        \* its outcome: [exc, val]
    log,        \* the observable events of the last call, in order
    drawn       \* the draw operations of the last call, one per frame

vars == <<gifs, dirs, files, tools, s2_bands, call, ret, log, drawn>>

----------------------------------------------------------------------------
(* Bounds of the model *)

MaxFrames == 2
\* the largest number of images of a collection whose thumbnails are assembled
MaxCount == 12

----------------------------------------------------------------------------
(* The environment: paths, GIF images *)

\* a.gif and b.gif are the paths a caller passes; t.gif is the path a function
\* makes up when out_gif is None (a random name in the download directory);
\* x_with_chart.gif is the path of x.gif combined with a chart.
UserGifs == {"a.gif", "b.gif"}
BaseGifs == UserGifs \cup {"t.gif"}
Stem(f) ==
    CASE f = "a.gif" -> "a" [] f = "b.gif" -> "b" [] f = "t.gif" -> "t"
      [] f = "a_with_chart.gif" -> "a_with_chart" [] f = "b_with_chart.gif" -> "b_with_chart"
      [] OTHER -> "t_with_chart"
\* base_gif.replace(".gif", "_with_chart.gif")
ChartOf(f) == Stem(f) \o "_with_chart.gif"
GifNames == BaseGifs \cup {ChartOf(f) : f \in BaseGifs}
DirOf(f) ==
    CASE f \in {"a.gif", "a_with_chart.gif"} -> "d1"
      [] f \in {"b.gif", "b_with_chart.gif"} -> "d2"
      [] OTHER -> "dl"
\* out_gif.replace(".gif", ".mp4"), in_gif.replace(".gif", "_tmp.gif")
Mp4Of(f) == Stem(f) \o ".mp4"
TmpOf(f) == Stem(f) \o "_tmp.gif"
\* os.path.join(tempfile.gettempdir(), basename), os.path.join(out_dir, "tmp_png")
TempDirOf(f) == "tmp/" \o Stem(f)
TmpPngOf(f) == DirOf(f) \o "/tmp_png"

\* f.endswith(".gif")
EndsWithGif(f) == f \in GifNames

NoGif == [W |-> 0, H |-> 0, n |-> 0]
\* A file that exists and is not a readable GIF (such as the empty file a shell
\* redirection leaves behind when its command fails).
BadGif == [W |-> 0, H |-> 0, n |-> -1]
GifSizes == {<<60, 40>>, <<200, 100>>}
GifMetas == {[W |-> s[1], H |-> s[2], n |-> k] : s \in GifSizes, k \in 1..MaxFrames}

Exists(w, f) == IF f \in GifNames THEN w.gifs[f] # NoGif ELSE f \in w.files
Readable(g) == g.n > 0

World == [gifs |-> gifs, dirs |-> dirs, files |-> files, tools |-> tools,
          log |-> <<>>, drawn |-> <<>>]

Logged(w, e) == [w EXCEPT !.log = Append(@, e)]
MakeDirs(w, d) == Logged([w EXCEPT !.dirs = @ \cup {d}], <<"makedirs", d>>)
EnsureDir(w, d) == IF d \in w.dirs THEN w ELSE MakeDirs(w, d)

None == [exc |-> "none", val |-> "None"]
Returns(v) == [exc |-> "none", val |-> v]
Raises(e) == [exc |-> e, val |-> "None"]
Outcome(w, r) == [w |-> w, ret |-> r]

\* The truth value of a str-or-None value v in "if v:"
Truthy(v) == v \notin {"None", ""}
BoolStr(b) == IF b THEN "True" ELSE "False"

TruncDiv(a, b) == IF a >= 0 THEN a \div b ELSE -((-a) \div b)

----------------------------------------------------------------------------
(* The command-line encoders.  os.system(cmd) runs the command; it never   *)
(* raises.  The command does its work when its tool is installed and the   *)
(* run succeeds (ok, an input of the call).                                *)

is_tool(w, name) == name \in w.tools

PngName(d, i) == d \o "/" \o ToString(i) \o ".png"
PngsIn(w, d) == {i \in 1..(MaxFrames + 1) : PngName(d, i) \in w.files}
RmTree(w, d) ==
    [w EXCEPT !.dirs = @ \ {d},
              !.files = @ \ {PngName(d, i) : i \in 1..(MaxFrames + 1)}]

\* f"ffmpeg -loglevel error -i {in_gif} ... {out_mp4}" through os.system
RunFfmpegMp4(w, in_gif, out_mp4, ok) ==
    LET w1 == Logged(w, <<"system", "ffmpeg", out_mp4>>)
    IN  IF is_tool(w, "ffmpeg") /\ ok /\ Readable(w.gifs[in_gif])
        THEN [w1 EXCEPT !.files = @ \cup {out_mp4}]
        ELSE w1

gif_to_mp4_unchecked(w, in_gif, ok) ==
    IF ~Exists(w, in_gif) THEN Outcome(w, Raises("FileNotFoundError"))
    ELSE
    LET out_mp4 == Mp4Of(in_gif)
        w1 == EnsureDir(w, DirOf(in_gif))
    IN  IF ~is_tool(w1, "ffmpeg")
        THEN Outcome(Logged(w1, <<"print", "ffmpeg is not installed on your computer.">>), None)
        ELSE IF ~Readable(w1.gifs[in_gif])
        THEN Outcome(w1, Raises("UnidentifiedImageError"))
        ELSE Outcome(RunFfmpegMp4(w1, in_gif, out_mp4, ok), None)

\* gif_to_mp4(in_gif, out_mp4) with out_mp4 = in_gif.replace(".gif", ".mp4"),
\* the only way the module calls it.
gif_to_mp4(w, in_gif, ok) ==
    IF ~Exists(w, in_gif) THEN Outcome(w, Raises("FileNotFoundError"))
    ELSE
    LET out_mp4 == Mp4Of(in_gif)
        w1 == EnsureDir(w, DirOf(in_gif))
    IN  IF ~is_tool(w1, "ffmpeg")
        THEN Outcome(Logged(w1, <<"print", "ffmpeg is not installed on your computer.">>), None)
        ELSE IF ~Readable(w1.gifs[in_gif])
        THEN Outcome(w1, Raises("UnidentifiedImageError"))
        ELSE
        LET w2 == Logged(RunFfmpegMp4(w1, in_gif, out_mp4, ok), <<"exists", out_mp4>>)
        IN  IF ~Exists(w2, out_mp4)
            THEN Outcome(w2, Raises("Exception"))
            ELSE Outcome(w2, None)

\* merge_gifs with in_gifs a list of the GIF names (is_list) or anything else.
\* The shell creates out_gif for the redirection before it runs gifsicle.  The
\* merged GIF has the frames of all inputs (here capped at MaxFrames).
merge_gifs(w, is_list, in_gifs, out_gif, ok) ==
    IF ~is_list
    THEN Outcome(Logged(w, <<"print", "gifsicle is not installed.">>), None)
    ELSE
    LET w1 == Logged(w, <<"system", "gifsicle", out_gif>>)
        readable == \A f \in in_gifs : Readable(w.gifs[f])
        merged == [W |-> w.gifs[CHOOSE f \in in_gifs : TRUE].W,
                   H |-> w.gifs[CHOOSE f \in in_gifs : TRUE].H,
                   n |-> MaxFrames]
    IN  IF DirOf(out_gif) \notin w.dirs THEN Outcome(w1, None)
        ELSE IF is_tool(w, "gifsicle") /\ ok /\ readable /\ in_gifs # {}
        THEN Outcome([w1 EXCEPT !.gifs[out_gif] = merged], None)
        ELSE Outcome([w1 EXCEPT !.gifs[out_gif] = BadGif], None)

\* gif_to_png with out_dir a str and prefix "".
gif_to_png(w, in_gif, out_dir, verbose, ok) ==
    IF ~Exists(w, in_gif) THEN Outcome(w, Raises("FileNotFoundError"))
    ELSE
    LET w1 == Logged(EnsureDir(w, out_dir), <<"system", "ffmpeg", out_dir>>)
        g == w.gifs[in_gif]
        w2 == IF is_tool(w, "ffmpeg") /\ ok /\ Readable(g)
              THEN [w1 EXCEPT !.files = @ \cup {PngName(out_dir, i) : i \in 1..g.n}]
              ELSE w1
    IN  Outcome(IF verbose THEN Logged(w2, <<"print", "Images are saved to", out_dir>>) ELSE w2,
                None)

\* gif_fading; ok1 and ok2 are the two ffmpeg runs.  The filter graph blends
\* consecutive images, so it needs at least two of them.  The frame count of
\* the encoder's output is kept as the input's.
gif_fading(w, in_gif, out_gif, verbose, ok1, ok2) ==
    LET w1 == EnsureDir(w, DirOf(out_gif))
        temp_dir == TempDirOf(in_gif)
    IN  IF ~Exists(w1, in_gif) THEN Outcome(w1, Raises("FileNotFoundError"))
        ELSE
        LET w2 == IF temp_dir \in w1.dirs THEN RmTree(w1, temp_dir) ELSE w1
            w3 == gif_to_png(w2, in_gif, temp_dir, verbose, ok1).w
            count == Cardinality(PngsIn(w3, temp_dir))
            w4 == Logged(w3, <<"system", "ffmpeg", out_gif>>)
            w5 == IF is_tool(w, "ffmpeg") /\ ok2 /\ count >= 2
                  THEN [w4 EXCEPT !.gifs[out_gif] = w.gifs[in_gif]]
                  ELSE w4
        IN  Outcome(RmTree(w5, temp_dir), None)

----------------------------------------------------------------------------
(* make_gif.  An image file is named by the characters that tell it from   *)
(* the other frames of its GIF: a string of decimal digits, here a         *)
(* sequence over 0..9.  list.sort() orders str values lexicographically.   *)

RECURSIVE DigitsStr(_)
DigitsStr(ds) == IF ds = <<>> THEN "" ELSE ToString(Head(ds)) \o DigitsStr(Tail(ds))
JpgName(ds) == "f_" \o DigitsStr(ds) \o ".jpg"

StrLess(a, b) ==
    \E k \in 0..(IF Len(a) < Len(b) THEN Len(a) ELSE Len(b)) :
        /\ \A j \in 1..k : a[j] = b[j]
        /\ \/ k = Len(a) /\ k < Len(b)
           \/ k < Len(a) /\ k < Len(b) /\ a[k + 1] < b[k + 1]

RECURSIVE Insert(_, _)
Insert(x, s) ==
    IF s = <<>> THEN <<x>>
    ELSE IF StrLess(Head(s), x) \/ Head(s) = x THEN <<Head(s)>> \o Insert(x, Tail(s))
    ELSE <<x>> \o s

RECURSIVE Sort(_)
Sort(s) == IF s = <<>> THEN <<>> ELSE Insert(Head(s), Sort(Tail(s)))

Range(s) == {s[i] : i \in 1..Len(s)}

\* The frames of a GIF that is assembled from image files, in order.
FramesEvent(images) == <<"frames">> \o [i \in 1..Len(images) |-> DigitsStr(images[i])]

\* make_gif with images a list of image files (is_list) or a value that is
\* neither a list nor a directory.  All images have the size `size`.  The GIF
\* writer folds the first frame, which the call passes twice, into one.
make_gif(w, is_list, images, size, out_gif, mp4, clean_up, ok) ==
    IF ~is_list THEN Outcome(w, Raises("ValueError"))
    ELSE
    LET sorted == Sort(images)
    IN  IF \E i \in 1..Len(sorted) : JpgName(sorted[i]) \notin w.files
        THEN Outcome(w, Raises("FileNotFoundError"))
        ELSE IF sorted = <<>> THEN Outcome(w, Raises("IndexError"))
        ELSE
        LET g == [W |-> size[1], H |-> size[2], n |-> Len(sorted)]
            w1 == Logged(Logged([w EXCEPT !.gifs[out_gif] = g], FramesEvent(sorted)),
                         <<"save", out_gif>>)
            w2 == Logged(RunFfmpegMp4(w1, out_gif, Mp4Of(out_gif), ok), <<"exists", Mp4Of(out_gif)>>)
            w3 == IF mp4 THEN w2 ELSE w1
            w4 == IF clean_up
                  THEN [w3 EXCEPT !.files = @ \ {JpgName(x) : x \in Range(sorted)}]
                  ELSE w3
        IN  IF mp4 /\ ~is_tool(w1, "ffmpeg")
            THEN Outcome(Logged(w1, <<"print", "ffmpeg is not installed on your computer.">>), None)
            ELSE IF mp4 /\ ~Exists(w2, Mp4Of(out_gif))
            THEN Outcome(w2, Raises("Exception"))
            ELSE Outcome(w4, None)

----------------------------------------------------------------------------
(* Coordinates.  An xy argument is None, a tuple or a list; an element is  *)
(* an int, a float or a str.  A str element contains '%' or not (pct), and *)
(* what is left after removing '%' parses as a number or not (num).        *)

IntItem(v) == [t |-> "int", v |-> v, pct |-> FALSE, num |-> TRUE]
FloatItem(v) == [t |-> "float", v |-> v, pct |-> FALSE, num |-> TRUE]
PctItem(v) == [t |-> "str", v |-> v, pct |-> TRUE, num |-> TRUE]
BadPctItem == [t |-> "str", v |-> 0, pct |-> TRUE, num |-> FALSE]
StrItem(v) == [t |-> "str", v |-> v, pct |-> FALSE, num |-> TRUE]

XYNone == [kind |-> "none", items |-> <<>>]
XYTuple(s) == [kind |-> "tuple", items |-> s]
XYList(s) == [kind |-> "list", items |-> s]

AllInt(s) == \A i \in 1..Len(s) : s[i].t = "int"
AllStr(s) == \A i \in 1..Len(s) : s[i].t = "str"

\* int(float(x.replace("%", "")) / 100.0 * W): truncation toward zero.  For the
\* percentages and sizes of this model the binary floating-point product equals
\* the exact quotient's truncation.
PctPixel(p, W) == TruncDiv(p * W, 100)

\* A resolved position: numeric (a pair of ints) or still a pair of strings.
Pos(x, y) == [num |-> TRUE, x |-> x, y |-> y]
StrPos == [num |-> FALSE, x |-> 0, y |-> 0]
Resolved(st, p) == [st |-> st, pos |-> p]

\* TextXY without the length test of the all-int branch.
TextXY_AnyLength(xy, W, H) ==
    IF xy.kind = "none" THEN Resolved("ok", Pos(PctPixel(5, W), PctPixel(5, H)))
    ELSE IF AllInt(xy.items) /\ Len(xy.items) >= 2
    THEN Resolved("ok", Pos(xy.items[1].v, xy.items[2].v))
    ELSE Resolved("return", StrPos)

\* The xy chain of add_text_to_gif: st is "ok" (go on and draw), "return"
\* (print a message and return None) or "raise".
TextXY(xy, W, H) ==
    IF xy.kind = "none" THEN Resolved("ok", Pos(PctPixel(5, W), PctPixel(5, H)))
    ELSE IF xy.kind # "tuple" /\ Len(xy.items) = 2 THEN Resolved("return", StrPos)
    ELSE IF AllInt(xy.items) /\ Len(xy.items) = 2 THEN
        LET x == xy.items[1].v
            y == xy.items[2].v
        IN IF x > 0 /\ x < W /\ y > 0 /\ y < H
           THEN Resolved("ok", Pos(x, y))
           ELSE Resolved("return", StrPos)
    ELSE IF AllStr(xy.items) /\ Len(xy.items) = 2 THEN
        LET x == xy.items[1]
            y == xy.items[2]
        IN IF x.pct /\ y.pct
           THEN IF x.num /\ y.num
                THEN Resolved("ok", Pos(PctPixel(x.v, W), PctPixel(y.v, H)))
                ELSE Resolved("raise", StrPos)
           ELSE Resolved("ok", StrPos)
    ELSE Resolved("return", StrPos)

----------------------------------------------------------------------------
(* Text sequences: None, an int, a str, a list of str or a tuple of str.   *)

TSNone == [kind |-> "none", i |-> 0, s |-> "", l |-> <<>>]
TSInt(k) == [kind |-> "int", i |-> k, s |-> "", l |-> <<>>]
TSStr(s) == [kind |-> "str", i |-> 0, s |-> s, l |-> <<>>]
TSList(l) == [kind |-> "list", i |-> 0, s |-> "", l |-> l]
TSTuple(l) == [kind |-> "tuple", i |-> 0, s |-> "", l |-> l]

ParseRange == 0..9
StrIsInt(s) == \E k \in ParseRange : ToString(k) = s
StrToInt(s) == CHOOSE k \in ParseRange : ToString(k) = s

\* [str(x) for x in range(a, b)]
StrRange(a, b) == [i \in 1..(IF b > a THEN b - a ELSE 0) |-> ToString(a + i - 1)]

NoText == [ok |-> FALSE, text |-> <<>>]
Text(t) == [ok |-> TRUE, text |-> t]

\* TextOf without the test of the list's length.
TextOf_AnyLength(ts, count) ==
    IF ts.kind = "none" THEN Text(StrRange(1, count + 1)) ELSE Text(ts.l)

\* The text_sequence chain of add_text_to_gif; ok = FALSE is "print a message
\* and return None".
TextOf(ts, count) ==
    IF ts.kind = "none" THEN Text(StrRange(1, count + 1))
    ELSE IF ts.kind = "int" THEN Text(StrRange(ts.i, ts.i + count + 1))
    ELSE IF ts.kind = "str" THEN
        IF StrIsInt(ts.s)
        THEN Text(StrRange(StrToInt(ts.s), StrToInt(ts.s) + count + 1))
        ELSE Text([i \in 1..count |-> ts.s])
    ELSE IF ts.kind = "list" /\ Len(ts.l) # count THEN NoText
    ELSE Text(ts.l)

----------------------------------------------------------------------------
(* add_text_to_gif *)

\* progress_bar_widths[i-1] = i * 1.0 / count * W, here rounded down.
BarWidth(i, count, W) == (i * W) \div count

\* The frames the loop draws before it ends or raises: frame i gets text[i] at
\* pos; draw.text raises on a non-numeric position and text[index] raises
\* IndexError past the end of text.
TextFrames(pos, text, g, bar) ==
    LET good == IF ~pos.num THEN 0 ELSE IF Len(text) < g.n THEN Len(text) ELSE g.n
    IN [i \in 1..good |-> [x |-> pos.x, y |-> pos.y, text |-> text[i],
                           bar |-> IF bar THEN BarWidth(i, g.n, g.W) ELSE 0]]

add_text_to_gif(w, in_gif, out_gif, xy, text_sequence, add_progress_bar) ==
    IF ~Exists(w, in_gif)
    THEN Outcome(Logged(w, <<"print", "The input gif file does not exist.">>), None)
    ELSE
    LET w1 == EnsureDir(w, DirOf(out_gif))
        g == w1.gifs[in_gif]
        r == TextXY(xy, g.W, g.H)
        t == TextOf(text_sequence, g.n)
    IN  IF ~Readable(g)
        THEN Outcome(Logged(w1, <<"print", "An error occurred while opening the gif.">>), None)
        ELSE IF r.st = "return"
        THEN Outcome(Logged(w1, <<"print", "xy is invalid">>), None)
        ELSE IF r.st = "raise"
        THEN Outcome(w1, Raises("Exception"))
        ELSE IF ~t.ok
        THEN Outcome(Logged(w1, <<"print", "The length of the text sequence must be equal">>), None)
        ELSE
        LET frames == TextFrames(r.pos, t.text, g, add_progress_bar)
            w2 == [w1 EXCEPT !.drawn = frames]
        IN  IF Len(frames) < g.n
            THEN Outcome(Logged(w2, <<"print", "exception">>), None)
            ELSE Outcome(Logged([w2 EXCEPT !.gifs[out_gif] = g], <<"save", out_gif>>), None)

----------------------------------------------------------------------------
(* add_image_to_gif.  logo is the image file in_image: whether it exists,  *)
(* whether the imaging library can open it, and its size.                  *)

Logo(e, o, lw, lh) == [exists |-> e, opens |-> o, w |-> lw, h |-> lh]

\* ratio = max(w / size[0], h / size[1]);
\* image_resize = (int(w / ratio), int(h / ratio))
ImageResize(logo, size) ==
    IF logo.w * size[2] >= logo.h * size[1]
    THEN <<size[1], (logo.h * size[1]) \div logo.w>>
    ELSE <<(logo.w * size[2]) \div logo.h, size[2]>>

\* The xy chain of add_image_to_gif.
ImageXY(xy, W, H, resize) ==
    IF xy.kind = "none" THEN Resolved("ok", Pos(W - resize[1] - 10, H - resize[2] - 10))
    ELSE IF xy.kind # "tuple" /\ Len(xy.items) = 2 THEN Resolved("return", StrPos)
    ELSE IF AllInt(xy.items) /\ Len(xy.items) = 2 THEN
        LET x == xy.items[1].v
            y == xy.items[2].v
        IN IF x > 0 /\ x < W /\ y > 0 /\ y < H
           THEN Resolved("ok", Pos(x, y))
           ELSE Resolved("return", StrPos)
    ELSE IF AllStr(xy.items) /\ Len(xy.items) = 2 THEN
        LET x == xy.items[1]
            y == xy.items[2]
        IN IF x.pct /\ y.pct
           THEN IF x.num /\ y.num
                THEN Resolved("ok", Pos(PctPixel(x.v, W), PctPixel(y.v, H)))
                ELSE Resolved("raise", StrPos)
           ELSE Resolved("ok", StrPos)
    ELSE Resolved("raise", StrPos)

\* frame.paste(logo_image, xy, mask_im) on every frame; paste raises on a
\* non-numeric position.
ImageFrames(pos, g) ==
    [i \in 1..(IF pos.num THEN g.n ELSE 0) |->
        [x |-> pos.x, y |-> pos.y, text |-> "image", bar |-> 0]]

add_image_to_gif(w, in_gif, out_gif, logo, xy, image_size) ==
    IF ~Exists(w, in_gif)
    THEN Outcome(Logged(w, <<"print", "The input gif file does not exist.">>), None)
    ELSE IF ~logo.exists
    THEN Outcome(Logged(w, <<"print", "The provided logo file does not exist.">>), None)
    ELSE
    LET w1 == EnsureDir(w, DirOf(out_gif))
        g == w1.gifs[in_gif]
    IN  IF ~Readable(g)
        THEN Outcome(Logged(w1, <<"print", "An error occurred while opening the image.">>), None)
        ELSE IF ~logo.opens
        THEN Outcome(Logged(w1, <<"print", "exception">>), Raises("AttributeError"))
        ELSE
        LET r == ImageXY(xy, g.W, g.H, ImageResize(logo, image_size))
        IN  IF r.st = "return"
            THEN Outcome(Logged(w1, <<"print", "xy is invalid">>), None)
            ELSE IF r.st = "raise"
            THEN Outcome(w1, Raises("Exception"))
            ELSE
            LET frames == ImageFrames(r.pos, g)
                w2 == [w1 EXCEPT !.drawn = frames]
            IN  IF Len(frames) < g.n
                THEN Outcome(Logged(w2, <<"print", "exception">>), None)
                ELSE Outcome(Logged([w2 EXCEPT !.gifs[out_gif] = g], <<"save", out_gif>>), None)

----------------------------------------------------------------------------
(* reduce_gif_size; out_gif is a GIF name or "None".  ffmpeg.run raises    *)
(* when the encoder fails.                                                 *)

\* reduce_gif_size without the test that in_gif exists.
reduce_gif_size_unchecked(w, in_gif, out_gif, ok) ==
    IF ~is_tool(w, "ffmpeg")
    THEN Outcome(Logged(w, <<"print", "ffmpeg is not installed on your computer.">>), None)
    ELSE
    LET out == IF out_gif = "None" THEN in_gif ELSE out_gif
        w1 == IF out_gif = "None" THEN w ELSE EnsureDir(w, DirOf(out_gif))
        w2 == Logged(w1, <<"run", "ffmpeg", out>>)
    IN  IF ok /\ Readable(w1.gifs[in_gif])
        THEN Outcome([w2 EXCEPT !.gifs[out] = w1.gifs[in_gif]], None)
        ELSE Outcome(w2, Raises("ffmpeg.Error"))

reduce_gif_size(w, in_gif, out_gif, ok) ==
    IF ~is_tool(w, "ffmpeg")
    THEN Outcome(Logged(w, <<"print", "ffmpeg is not installed on your computer.">>), None)
    ELSE IF ~Exists(w, in_gif)
    THEN Outcome(Logged(w, <<"print", "The input gif file does not exist.">>), None)
    ELSE
    LET out == IF out_gif = "None" THEN in_gif ELSE out_gif
        w1 == IF out_gif = "None" THEN w ELSE EnsureDir(w, DirOf(out_gif))
        g == w1.gifs[in_gif]
    IN  IF in_gif = out
        THEN LET w2 == Logged([w1 EXCEPT !.files = @ \cup {TmpOf(in_gif)}],
                              <<"run", "ffmpeg", in_gif>>)
             IN  IF ok /\ Readable(g)
                 THEN Outcome([w2 EXCEPT !.files = @ \ {TmpOf(in_gif)}], None)
                 ELSE Outcome(w2, Raises("ffmpeg.Error"))
        ELSE LET w2 == Logged(w1, <<"run", "ffmpeg", out>>)
             IN  IF ok /\ Readable(g)
                 THEN Outcome([w2 EXCEPT !.gifs[out] = g], None)
                 ELSE Outcome(w2, Raises("ffmpeg.Error"))

----------------------------------------------------------------------------
(* add_progress_bar_to_gif *)

BarFrames(g) ==
    [i \in 1..g.n |-> [x |-> 0, y |-> 0, text |-> "", bar |-> BarWidth(i, g.n, g.W)]]

add_progress_bar_to_gif(w, in_gif, out_gif) ==
    IF ~Exists(w, in_gif)
    THEN Outcome(Logged(w, <<"print", "The input gif file does not exist.">>), None)
    ELSE
    LET w1 == EnsureDir(w, DirOf(out_gif))
        g == w1.gifs[in_gif]
    IN  IF ~Readable(g)
        THEN Outcome(w1, Raises("Exception"))
        ELSE Outcome(Logged([w1 EXCEPT !.drawn = BarFrames(g), !.gifs[out_gif] = g],
                            <<"save", out_gif>>), None)

----------------------------------------------------------------------------
(* vector_to_gif.  The vector data is a GeoDataFrame with bounding box     *)
(* bbox = <<minx, miny, maxx, maxy>>; colname_ok says whether colname is   *)
(* one of its columns; count is len(options).  png_to_gif writes out_gif   *)
(* from the PNG files of tmp_dir, each of the figure's size.               *)

FigureSize == <<200, 100>>

\* The xy chain of vector_to_gif; it sets x and y, which xy = None leaves
\* unbound, and a pair of strings without '%' leaves as strings.
VectorXY(xy, W, H) ==
    IF xy.kind = "none" THEN Resolved("unbound", StrPos)
    ELSE IF xy.kind # "tuple" /\ Len(xy.items) = 2 THEN Resolved("raise", StrPos)
    ELSE IF AllInt(xy.items) /\ Len(xy.items) = 2 THEN
        LET x == xy.items[1].v
            y == xy.items[2].v
        IN IF x > 0 /\ x < W /\ y > 0 /\ y < H
           THEN Resolved("ok", Pos(x, y))
           ELSE Resolved("return", StrPos)
    ELSE IF AllStr(xy.items) /\ Len(xy.items) = 2 THEN
        LET x == xy.items[1]
            y == xy.items[2]
        IN IF x.pct /\ y.pct
           THEN IF x.num /\ y.num
                THEN Resolved("ok", Pos(PctPixel(x.v, W), PctPixel(y.v, H)))
                ELSE Resolved("raise", StrPos)
           ELSE Resolved("ok", StrPos)
    ELSE Resolved("raise", StrPos)

VectorFrames(x, y, count, add_text) ==
    [i \in 1..count |-> [x |-> IF add_text THEN x ELSE 0, y |-> IF add_text THEN y ELSE 0,
                         text |-> IF add_text THEN ToString(i) ELSE "", bar |-> 0]]

vector_to_gif(w, out_gif, colname_ok, bbox, count, xy, add_text, add_progress_bar, mp4, keep_png, ok) ==
    LET tmp_dir == TmpPngOf(out_gif)
        w1 == IF tmp_dir \in w.dirs THEN w
              ELSE Logged([w EXCEPT !.dirs = @ \cup {DirOf(out_gif), tmp_dir}],
                          <<"makedirs", tmp_dir>>)
        W == bbox[3] - bbox[1]
        H == bbox[4] - bbox[2]
        r == VectorXY(xy, W, H)
    IN  IF ~colname_ok THEN Outcome(w1, Raises("Exception"))
        ELSE IF r.st = "raise" THEN Outcome(w1, Raises("Exception"))
        ELSE IF r.st = "return" THEN Outcome(Logged(w1, <<"print", "xy is out of bounds">>), None)
        ELSE IF r.st = "unbound" THEN Outcome(w1, Raises("UnboundLocalError"))
        ELSE IF ~r.pos.num THEN Outcome(w1, Raises("TypeError"))
        ELSE
        LET x == bbox[1] + r.pos.x
            y == bbox[2] + r.pos.y
            g == [W |-> FigureSize[1], H |-> FigureSize[2], n |-> count]
            w2 == [w1 EXCEPT !.files = @ \cup {PngName(tmp_dir, i) : i \in 1..count},
                             !.drawn = VectorFrames(x, y, count, add_text)]
            w3 == Logged([w2 EXCEPT !.gifs[out_gif] = g], <<"save", out_gif>>)
            w4 == IF add_progress_bar
                  THEN [add_progress_bar_to_gif(w3, out_gif, out_gif).w EXCEPT !.drawn = w3.drawn]
                  ELSE w3
            m == gif_to_mp4(w4, out_gif, ok)
            w5 == IF mp4 THEN m.w ELSE w4
        IN  IF mp4 /\ m.ret.exc # "none" THEN Outcome(w5, m.ret)
            ELSE Outcome(Logged(IF keep_png THEN w5 ELSE RmTree(w5, tmp_dir),
                                <<"print", "Done. The GIF is saved to", out_gif>>), None)

----------------------------------------------------------------------------
(* create_timeseries and create_timelapse.  The remote service is an       *)
(* input: e.count is the number of images of the time series, e.size the   *)
(* size of the frames it renders, e.nbands the number of bands of its      *)
(* first image; the e.*_ok say whether a download or an encoder run works. *)

\* bands is None, a str, a list of n band names or another value; vis_params is
\* None, a dict with some keys or another value; dimensions is an int or "WxH".
BandsNone == [kind |-> "none", n |-> 0]
BandsStr == [kind |-> "str", n |-> 1]
BandsList(n) == [kind |-> "list", n |-> n]
BandsOther == [kind |-> "other", n |-> 0]
VisNone == [kind |-> "none", keys |-> {}]
VisDict(keys) == [kind |-> "dict", keys |-> keys]
VisOther == [kind |-> "other", keys |-> {}]
DimInt(v) == [kind |-> "int", v |-> <<v>>]
DimStr(v) == [kind |-> "str", v |-> v]

Try(o, F(_)) == IF o.ret.exc # "none" THEN o ELSE F(o.w)
Called(w, f) == Logged(w, <<"call", f>>)
Remote(w, what) == Logged(w, <<"remote", what>>)

FeqKeys == {"year", "month", "quarter", "week", "day", "hour", "minute", "second"}
FeqFormat(frequency) ==
    CASE frequency = "year" -> "YYYY"
      [] frequency \in {"month", "quarter"} -> "YYYY-MM"
      [] frequency \in {"week", "day"} -> "YYYY-MM-dd"
      [] frequency = "hour" -> "YYYY-MM-dd HH"
      [] frequency = "minute" -> "YYYY-MM-dd HH:mm"
      [] OTHER -> "YYYY-MM-dd HH:mm:ss"

NoCol == [date_format |-> "", drop_empty |-> FALSE, frequency |-> ""]
TimeSeries(exc, col) == [exc |-> exc, col |-> col]

\* collection is "collection" (an ee.ImageCollection), "str" (an asset id) or
\* "other"; date_format is "None" or a pattern.
\* dates_ok: date_sequence accepts the frequency and the dates.
create_timeseries(collection, frequency, reducer_ok, drop_empty, date_format, dates_ok) ==
    IF collection = "other" THEN TimeSeries("Exception", NoCol)
    ELSE IF date_format = "None" /\ frequency \notin FeqKeys THEN TimeSeries("KeyError", NoCol)
    ELSE IF ~dates_ok THEN TimeSeries("Exception", NoCol)
    ELSE IF ~reducer_ok THEN TimeSeries("Exception", NoCol)
    ELSE TimeSeries("none",
                    [date_format |-> IF date_format = "None" THEN FeqFormat(frequency)
                                     ELSE date_format,
                     drop_empty |-> drop_empty, frequency |-> frequency])

\* str(n) as a sequence of digits, and s.zfill(k)
RECURSIVE Digits(_)
Digits(n) == IF n < 10 THEN <<n>> ELSE Append(Digits(n \div 10), n % 10)
RECURSIVE ZFill(_, _)
ZFill(ds, k) == IF Len(ds) >= k THEN ds ELSE ZFill(<<0>> \o ds, k)

\* FrameNames with str(i+1) not filled with zeros.
FrameNames_Unpadded(count) == [i \in 1..count |-> Digits(i)]

\* f"{basename}_{str(i+1).zfill(int(len(str(count))))}.jpg" for i in range(count)
FrameNames(count) == [i \in 1..count |-> ZFill(Digits(i), Len(Digits(count)))]

\* isinstance(dimensions, int) and dimensions > 768 or isinstance(dimensions, str)
\* and any(dim > 768 for dim in map(int, dimensions.split("x")))
IsLarge(dimensions) ==
    \/ dimensions.kind = "int" /\ dimensions.v[1] > 768
    \/ dimensions.kind = "str" /\ \E i \in 1..Len(dimensions.v) : dimensions.v[i] > 768

\* The number of bands that are visualized: bands is None (the first three
\* band names, or the only one), a str, a list of n names, or "other".
NumBands(bands, nbands) ==
    CASE bands.kind = "none" -> IF nbands < 3 THEN 1 ELSE 3
      [] bands.kind = "str" -> 1
      [] OTHER -> bands.n

\* The keys of vis_params after create_timelapse has completed it.
VisKeys(vis_params, palette, nb) ==
    IF vis_params.kind = "none"
    THEN {"bands", "min", "max"} \cup (IF nb = 1 THEN {"palette"} ELSE {})
    ELSE LET k1 == vis_params.keys \cup {"bands", "min", "max"}
             k2 == IF palette = "none" /\ nb = 1 /\ "palette" \notin k1 THEN k1 \cup {"palette"}
                   ELSE IF palette # "none" /\ "palette" \notin k1 THEN k1 \cup {"palette"}
                   ELSE k1
         IN  IF nb > 1 /\ "palette" \in k2 THEN k2 \ {"palette"} ELSE k2

\* The GIF is assembled from thumbnails (large dimensions) or downloaded.
GenerateGif(w, out_gif, large, e) ==
    IF large
    THEN LET names == FrameNames(e.count)
             w1 == Remote(Remote(w, "size"), "thumbnails")
             w2 == IF e.dl_ok
                   THEN [w1 EXCEPT !.files = @ \cup {JpgName(names[i]) : i \in 1..e.count}]
                   ELSE w1
         IN  make_gif(Called(w2, "make_gif"), TRUE, names, e.size, out_gif, FALSE, TRUE, TRUE)
    ELSE LET w1 == Remote(w, "download_ee_video")
         IN  IF e.dl_ok /\ EndsWithGif(out_gif)
             THEN Outcome(Logged([w1 EXCEPT !.gifs[out_gif] =
                                     [W |-> e.size[1], H |-> e.size[2], n |-> e.count]],
                                 <<"save", out_gif>>), None)
             ELSE Outcome(Logged(w1, <<"print", "download failed">>), None)

Dates(count) == [i \in 1..count |-> "date" \o ToString(i)]

\* The title and the texts that a timelapse function writes on out_gif.
AddTexts(w, out_gif, a, e) ==
    LET title == IF a.title = "None" THEN Outcome(w, None)
                 ELSE add_text_to_gif(Called(Logged(w, <<"step", "title">>), "add_text_to_gif"),
                                      out_gif, out_gif, a.title_xy, TSStr(a.title),
                                      a.add_progress_bar)
        text(w1) ==
            IF ~a.add_text THEN Outcome(w1, None)
            ELSE IF a.text_sequence = TSNone
            THEN add_text_to_gif(Called(Remote(Logged(w1, <<"step", "text">>), "getInfo"),
                                        "add_text_to_gif"), out_gif,
                                 out_gif, a.text_xy, TSList(Dates(e.count)),
                                 a.add_progress_bar)
            ELSE add_text_to_gif(Called(Logged(w1, <<"step", "text">>), "add_text_to_gif"),
                                 out_gif, out_gif, a.text_xy, a.text_sequence,
                                 a.add_progress_bar)
    IN  Try(title, text)

\* The colorbar step of create_timelapse; vis is the set of keys of vis_params.
AddColorbar(w, out_gif, a, e, vis) ==
    IF ~a.add_colorbar THEN Outcome(w, None)
    ELSE LET w1 == Logged(w, <<"step", "colorbar">>)
         IN  IF "palette" \notin vis THEN Outcome(w1, Raises("KeyError"))
             ELSE add_image_to_gif(Called(Called(w1, "save_colorbar"), "add_image_to_gif"),
                                   out_gif, out_gif, e.colorbar, a.colorbar_xy,
                                   a.colorbar_size)

\* FinishGif converting to MP4 before the reduction and the fading.
FinishGif_ConvertFirst(w, out_gif, a, e) ==
    LET convert == IF a.mp4 THEN gif_to_mp4(Called(w, "gif_to_mp4"), out_gif, e.mp4_ok)
                   ELSE Outcome(w, None)
        reduce(w1) == IF Exists(w1, out_gif)
                      THEN reduce_gif_size(Called(w1, "reduce_gif_size"), out_gif, "None",
                                           e.reduce_ok)
                      ELSE Outcome(w1, None)
        fade(w1) == IF a.fading > 0
                    THEN gif_fading(Called(w1, "gif_fading"), out_gif, out_gif, FALSE,
                                    e.fade_ok, e.fade_ok)
                    ELSE Outcome(w1, None)
        return(w1) == Outcome(w1, Returns(out_gif))
    IN  Try(Try(Try(convert, reduce), fade), return)

\* The last steps of a timelapse function: reduce, fade, convert, return.
FinishGif(w, out_gif, a, e) ==
    LET reduce == IF Exists(w, out_gif)
                  THEN reduce_gif_size(Called(w, "reduce_gif_size"), out_gif, "None", e.reduce_ok)
                  ELSE Outcome(w, None)
        fade(w1) == IF a.fading > 0
                    THEN gif_fading(Called(w1, "gif_fading"), out_gif, out_gif, FALSE,
                                    e.fade_ok, e.fade_ok)
                    ELSE Outcome(w1, None)
        convert(w1) == IF a.mp4 THEN gif_to_mp4(Called(w1, "gif_to_mp4"), out_gif, e.mp4_ok)
                       ELSE Outcome(w1, None)
        return(w1) == Outcome(w1, Returns(out_gif))
    IN  Try(Try(Try(reduce, fade), convert), return)

create_timelapse(w, a, e) ==
    IF a.collection = "other" THEN Outcome(w, Raises("Exception"))
    ELSE
    LET ts == create_timeseries(a.collection, a.frequency, a.reducer_ok, TRUE,
                                a.date_format, a.dates_ok)
        out_gif == IF a.out_gif = "None" THEN "t.gif" ELSE a.out_gif
        w1 == EnsureDir(w, DirOf(out_gif))
        nb == NumBands(a.bands, e.nbands)
        w2 == IF a.bands.kind = "none" THEN Remote(w1, "getInfo") ELSE w1
        vis == VisKeys(a.vis_params, a.palette, nb)
        w3 == IF a.vis_params.kind = "none" \/ {"min", "max"} \ a.vis_params.keys # {}
              THEN Remote(w2, "getInfo") ELSE w2
    IN  IF ts.exc # "none" THEN Outcome(w, Raises(ts.exc))
        ELSE IF a.bands.kind = "other" THEN Outcome(w1, Raises("Exception"))
        ELSE IF a.palette = "other" THEN Outcome(w2, Raises("Exception"))
        ELSE IF a.vis_params.kind = "other" THEN Outcome(w2, Raises("Exception"))
        ELSE IF a.overlay = "bad" THEN Outcome(w3, Raises("Exception"))
        ELSE Try(Try(Try(GenerateGif(Logged(w3, <<"step", "generate">>), out_gif,
                                     IsLarge(a.dimensions), e),
                         LAMBDA v : AddTexts(v, out_gif, a, e)),
                     LAMBDA v : AddColorbar(v, out_gif, a, e, vis)),
                 LAMBDA v : FinishGif(v, out_gif, a, e))

----------------------------------------------------------------------------
(* sentinel1_filtering.  An image is the record of its properties; a       *)
(* collection is a set of images.  An omitted argument is "None".          *)

S1ModeOfBand == [b \in {"VV", "VH", "HH", "HV"} |-> IF b \in {"VV", "VH"} THEN "IW" ELSE "EW"]

\* kwargs is a set of <<property, value>> pairs.  The result tells the kept
\* images and whether the outlier mask was mapped over them.
sentinel1_filtering(collection, band, instrumentMode, orbitProperties_pass, transmitterReceiverPolarisation, remove_outliers, kwargs) ==
    LET pol == IF Truthy(transmitterReceiverPolarisation)
               THEN transmitterReceiverPolarisation ELSE band
    IN  IF ~Truthy(instrumentMode) /\ band \notin DOMAIN S1ModeOfBand THEN Raises("KeyError")
        ELSE
        LET mode == IF Truthy(instrumentMode) THEN instrumentMode ELSE S1ModeOfBand[band]
            col1 == {img \in collection :
                        /\ img.instrumentMode = mode
                        /\ pol \in img.transmitterReceiverPolarisation}
            col2 == {img \in col1 : \A kv \in kwargs : img[kv[1]] = kv[2]}
            col3 == IF Truthy(orbitProperties_pass)
                    THEN {img \in col2 : img.orbitProperties_pass = orbitProperties_pass}
                    ELSE col2
        IN  Returns([images |-> col3, masked |-> remove_outliers])

----------------------------------------------------------------------------
(* modis_ocean_color_timeseries and modis_ocean_color_timelapse.  A        *)
(* date_format argument is "None" or a pattern (a str).                    *)

ModisFrequencies == {"year", "quarter", "month", "week", "day"}

\* region is "none", "geometry" (an ee.Geometry or ee.FeatureCollection) or
\* "other".  drop_empty is the truth value of the argument bound to the
\* parameter drop_empty.  The event tells how the time series was built.
modis_ocean_color_timeseries(w, satellite, region, frequency, reducer_ok, drop_empty, date_format, dates_ok) ==
    IF satellite \notin {"Terra", "Aqua"} THEN Outcome(w, Raises("Exception"))
    ELSE IF frequency \notin ModisFrequencies THEN Outcome(w, Raises("Exception"))
    ELSE IF region = "other" THEN Outcome(w, Raises("Exception"))
    ELSE
    LET ts == create_timeseries("collection", frequency, reducer_ok, drop_empty, date_format,
                                dates_ok)
    IN  IF ts.exc # "none" THEN Outcome(w, Raises(ts.exc))
        ELSE Outcome(Logged(w, <<"timeseries", ts.col.date_format, BoolStr(ts.col.drop_empty)>>),
                     Returns("ImageCollection"))

\* collection = modis_ocean_color_timeseries(satellite, start_date, end_date,
\*     roi, bands, frequency, reducer, date_format): the eighth positional
\* parameter of modis_ocean_color_timeseries is drop_empty, and its
\* date_format keeps its default None.
modis_ocean_color_timelapse(w, a, e) ==
    LET col == modis_ocean_color_timeseries(w, a.satellite, a.roi, a.frequency, a.reducer_ok,
                                            Truthy(a.date_format), "None", a.dates_ok)
        bands == IF a.bands = BandsNone THEN BandsList(1) ELSE a.bands
        palette == IF bands.n = 1 /\ a.palette = "none" THEN "str" ELSE a.palette
    IN  IF col.ret.exc # "none" THEN col
        ELSE create_timelapse(Called(col.w, "create_timelapse"),
                              [a EXCEPT !.collection = "collection", !.bands = bands,
                                        !.palette = palette], e)

----------------------------------------------------------------------------
(* sentinel2_timeseries and sentinel2_timelapse.  A bands argument is a    *)
(* Python list, here the sequence of its elements; the list that is the    *)
(* default value of the bands parameter lives as long as the module.       *)

AllowedBand(b) ==
    CASE b = "Blue" -> "B2" [] b = "Green" -> "B3" [] b = "Red" -> "B4"
      [] b = "Red Edge 1" -> "B5" [] b = "Red Edge 2" -> "B6" [] b = "Red Edge 3" -> "B7"
      [] b = "NIR" -> "B8" [] b = "Red Edge 4" -> "B8A" [] b = "SWIR1" -> "B11"
      [] b = "SWIR2" -> "B12" [] OTHER -> b
\* for index, band in enumerate(bands): bands[index] = allowed_bands[band]
MapBands(bands) == [i \in 1..Len(bands) |-> AllowedBand(bands[i])]

\* Returns the time series and leaves bands, the caller's list, rewritten.
sentinel2_timeseries(bands, frequency, reducer_ok, drop_empty, date_format, dates_ok) ==
    [ts |-> create_timeseries("collection", frequency, reducer_ok, drop_empty, date_format,
                              dates_ok),
     bands |-> MapBands(bands)]

S2BandsDefault == [kind |-> "default", l |-> <<>>]
S2BandsNone == [kind |-> "none", l |-> <<>>]
S2BandsList(l) == [kind |-> "list", l |-> l]


Caught_Reraised(o) == o

\* except Exception as e: print(e); the function then returns None
Caught(o) ==
    IF o.ret.exc # "none" THEN Outcome(Logged(o.w, <<"print", o.ret.exc>>), None) ELSE o

S2Result(o, default_bands) == [w |-> o.w, ret |-> o.ret, default_bands |-> default_bands]

\* a.bands is "default" (the argument is left out), "none" or a list;
\* default_bands is the default value of the parameter as the call finds it.
sentinel2_timelapse(w, default_bands, a, e) ==
    IF a.roi = "other"
    THEN S2Result(Outcome(Logged(w, <<"print", "The provided roi is invalid.">>), None),
                  default_bands)
    ELSE IF a.out_gif # "None" /\ ~EndsWithGif(a.out_gif)
    THEN S2Result(Outcome(Logged(w, <<"print", "The output file must end with .gif">>), None),
                  default_bands)
    ELSE
    LET out_gif == IF a.out_gif = "None" THEN "t.gif" ELSE a.out_gif
        w1 == EnsureDir(w, DirOf(out_gif))
        bands == MapBands(CASE a.bands.kind = "default" -> default_bands
                            [] a.bands.kind = "none" -> <<"SWIR1", "NIR", "Red">>
                            [] OTHER -> a.bands.l)
        defaults == IF a.bands.kind = "default" THEN bands ELSE default_bands
        s2 == sentinel2_timeseries(bands, a.frequency, a.reducer_ok, TRUE, a.date_format,
                                   a.dates_ok)
        col == IF s2.ts.exc # "none" THEN Outcome(w1, Raises(s2.ts.exc))
               ELSE IF a.overlay = "bad" THEN Outcome(w1, Raises("Exception"))
               ELSE Outcome(w1, None)
        texts(v) == IF Exists(v, out_gif) THEN AddTexts(v, out_gif, a, e) ELSE Outcome(v, None)
    IN  IF Len(bands) # 3 THEN S2Result(Outcome(w1, Raises("Exception")), defaults)
        ELSE S2Result(
                Caught(Try(Try(Try(col,
                                   LAMBDA v : GenerateGif(Logged(v, <<"step", "generate">>),
                                                          out_gif, IsLarge(a.dimensions), e)),
                               texts),
                           LAMBDA v : FinishGif(v, out_gif, a, e))),
                defaults)

----------------------------------------------------------------------------
(* landsat_timeseries and sentinel2_timeseries_legacy.  A year argument is *)
(* an int or not; a month-day argument matches the pattern dd-dd or not,   *)
(* names a day of the calendar or not, and md orders the days of a year.   *)

YearInt(v) == [isint |-> TRUE, v |-> v]
YearNone == [isint |-> FALSE, v |-> 0]
YearStr(v) == [isint |-> FALSE, v |-> v]
MonthDay(match, valid, md) == [match |-> match, valid |-> valid, md |-> md]

get_current_year == 2026

LegacyFeqKeys == {"year", "month", "quarter"}

\* roi is None, an ee.Geometry, an object with a geometry() method or another.
landsat_timeseries(w, a) ==
    LET end_year == IF a.end_year = YearNone THEN YearInt(get_current_year) ELSE a.end_year
        said(m) == Outcome(Logged(w, <<"print", m>>), None)
    IN  IF a.roi = "other"
        THEN Outcome(Logged(Logged(w, <<"print", "Could not convert the provided roi to ee.Geometry">>),
                            <<"print", "AttributeError">>), None)
        ELSE IF a.date_format = "None" /\ a.frequency \notin LegacyFeqKeys
        THEN Outcome(w, Raises("KeyError"))
        ELSE IF a.frequency \notin LegacyFeqKeys THEN Outcome(w, Raises("ValueError"))
        ELSE IF ~(a.start_year.isint /\ a.start_year.v >= 1984 /\ a.start_year.v < get_current_year)
        THEN said("The start year must be an integer >= 1984.")
        ELSE IF ~(end_year.isint /\ end_year.v > 1984 /\ end_year.v <= get_current_year)
        THEN said("The end year must be an integer <= the current year.")
        ELSE IF ~(a.start_date.match /\ a.end_date.match)
        THEN said("The start date and end date must be month-day, such as 06-10, 09-20")
        ELSE IF ~(a.start_date.valid /\ a.end_date.valid)
        THEN Outcome(Logged(w, <<"print", "The input dates are invalid.">>), Raises("Exception"))
        ELSE Outcome(Logged(w, <<"collection", a.frequency>>), Returns("ImageCollection"))

sentinel2_timeseries_legacy(w, a) ==
    LET end_year == IF a.end_year = YearNone THEN YearInt(get_current_year) ELSE a.end_year
        said(m) == Outcome(Logged(w, <<"print", m>>), None)
        w1 == Remote(w, "ee_to_geojson")
        said1(m) == Outcome(Logged(w1, <<"print", m>>), None)
    IN  IF a.roi = "other"
        THEN Outcome(Logged(Logged(w, <<"print", "Could not convert the provided roi to ee.Geometry">>),
                            <<"print", "AttributeError">>), None)
        ELSE IF a.date_format = "None" /\ a.frequency \notin LegacyFeqKeys
        THEN Outcome(w1, Raises("KeyError"))
        ELSE IF a.frequency \notin LegacyFeqKeys THEN Outcome(w1, Raises("ValueError"))
        ELSE IF ~(a.start_year.isint /\ a.start_year.v >= 2015 /\ a.start_year.v <= get_current_year)
        THEN said1("The start year must be an integer >= 2015.")
        ELSE IF ~(end_year.isint /\ end_year.v >= 2015 /\ end_year.v <= get_current_year)
        THEN said1("The end year must be an integer <= the current year.")
        ELSE IF ~(a.start_date.match /\ a.end_date.match)
        THEN said1("The start data and end date must be month-day, such as 06-10, 09-20")
        ELSE IF ~(a.start_date.valid /\ a.end_date.valid)
        THEN Outcome(w1, Raises("ValueError"))
        ELSE IF \/ a.start_year.v > end_year.v
                \/ a.start_year.v = end_year.v /\ a.start_date.md > a.end_date.md
        THEN Outcome(w1, Raises("Exception"))
        ELSE Outcome(Logged(w1, <<"collection", a.frequency>>), Returns("ImageCollection"))

----------------------------------------------------------------------------
(* The timelapse functions with sample points.  A sample_points argument   *)
(* is None, a list of [lon, lat] pairs or a value that is not a list;      *)
(* roi is an ee.Geometry ("geometry"), another Earth Engine object         *)
(* ("feature") or a value the service refuses ("other").  Longitudes and   *)
(* latitudes are integers, and the extent of a region is 1 or 2 in each    *)
(* direction, so that the float divisions of the code are exact.           *)

SPNone == [kind |-> "none", pts |-> <<>>]
SPList(pts) == [kind |-> "list", pts |-> pts]
SPOther == [kind |-> "other", pts |-> <<>>]

MCNone == [kind |-> "none", l |-> <<>>]
MCList(l) == [kind |-> "list", l |-> l]

Min(x, y) == IF x < y THEN x ELSE y
Max(x, y) == IF x > y THEN x ELSE y
\* s[i:j] of Python, 0-based and clipped to the list
Slice(s, i, j) == SubSeq(s, Min(i, Len(s)) + 1, Min(j, Len(s)))

MaxSamplePoints == 5

Validated(exc, sp) == [exc |-> exc, sp |-> sp]

ValidateSamplePoints_NoLimit(sample_points) ==
    IF sample_points.kind = "none" THEN Validated("none", SPNone)
    ELSE IF sample_points.kind # "list" THEN Validated("ValueError", SPNone)
    ELSE IF Len(sample_points.pts) = 0 THEN Validated("none", SPNone)
    ELSE Validated("none", sample_points)

\* "Validate sample points", the first statements of sentinel1_timelapse_with_samples;
\* the other two functions have the same statements after their indices.
ValidateSamplePoints(sample_points) ==
    IF sample_points.kind = "none" THEN Validated("none", SPNone)
    ELSE IF sample_points.kind # "list" THEN Validated("ValueError", SPNone)
    ELSE IF Len(sample_points.pts) > MaxSamplePoints THEN Validated("ValueError", SPNone)
    ELSE IF Len(sample_points.pts) = 0 THEN Validated("none", SPNone)
    ELSE Validated("none", sample_points)

DefaultColors == <<"red", "blue", "green", "orange", "purple">>
\* "Set default marker colors if not provided"
MarkerColors(sp, marker_colors) ==
    IF sp = SPNone THEN marker_colors.l
    ELSE IF marker_colors.kind = "none" THEN Slice(DefaultColors, 0, Len(sp.pts))
    ELSE IF Len(marker_colors.l) < Len(sp.pts)
    THEN marker_colors.l \o Slice(DefaultColors, Len(marker_colors.l), Len(sp.pts))
    ELSE marker_colors.l

Adjusted(w, r, dims) == [w |-> w, ret |-> r, dims |-> dims]

\* "Adjust dimensions to avoid Earth Engine limits"; e.bounds is
\* <<min_lon, min_lat, max_lon, max_lat>> of roi.  An int dimensions is at most
\* 5120 here, so that min() picks it and the product stays under max_pixels.
AdjustDimensions(w, roi, dimensions, e) ==
    IF roi # "geometry" THEN Adjusted(w, None, dimensions)
    ELSE
    LET w1 == Remote(w, "bounds")
        lon_range == e.bounds[3] - e.bounds[1]
        lat_range == e.bounds[4] - e.bounds[2]
        d == dimensions.v[1]
        wide == lat_range > 0 /\ lon_range > lat_range
        width == IF wide THEN d
                 ELSE IF lat_range > 0 THEN TruncDiv(d * lon_range, lat_range) ELSE d
        height == IF wide THEN TruncDiv(d * lat_range, lon_range) ELSE d
        dims == IF dimensions.kind = "int"
                THEN DimStr(<<Max(256, width), Max(256, height)>>)
                ELSE dimensions
    IN  IF dimensions.kind = "int" /\ lat_range > 0 /\ lon_range = 0
        THEN Adjusted(w1, Raises("ZeroDivisionError"), dimensions)
        ELSE Adjusted(Logged(w1, <<"print", "Adjusted dimensions">>), None, dims)

\* The arguments that a function with sample points hands to create_timelapse.
BaseArgs(a, bands, palette, vis_params, dimensions) ==
    [a EXCEPT !.collection = "collection", !.bands = BandsList(Len(bands)),
              !.palette = palette, !.vis_params = vis_params, !.dimensions = dimensions,
              !.mp4 = FALSE]

S1BandLists == {<<"VV">>, <<"VH">>, <<"HH">>, <<"HV">>, <<"VV", "VH">>, <<"HH", "HV">>,
                <<"VH", "VV">>, <<"HV", "HH">>}

\* sentinel1_timelapse as sentinel1_timelapse_with_samples calls it (mp4=False).
sentinel1_timelapse(w, a, dimensions, e) ==
    IF a.bands \notin S1BandLists THEN Outcome(w, Raises("AssertionError"))
    ELSE IF a.roi = "other" THEN Outcome(w, Raises("Exception"))
    ELSE create_timelapse(w, BaseArgs(a, a.bands, a.palette,
                                      IF a.vis_params = VisNone THEN VisDict({"min", "max"})
                                      ELSE a.vis_params, dimensions), e)

\* if mp4: gif_to_mp4(base_gif, ...); return base_gif
MapOnly(w, base_gif, mp4, e) ==
    IF mp4
    THEN Try(gif_to_mp4(Called(w, "gif_to_mp4"), base_gif, e.mp4_ok),
             LAMBDA v : Outcome(v, Returns(base_gif)))
    ELSE Outcome(w, Returns(base_gif))

\* get_pixel_coordinates_from_geo without the two lines that ensure that the
\* coordinates are within bounds.
get_pixel_coordinates_from_geo_unclamped(lon, lat, roi_bounds, gif_width, gif_height) ==
    <<TruncDiv((lon - roi_bounds[1]) * gif_width, roi_bounds[3] - roi_bounds[1]),
      TruncDiv((roi_bounds[4] - lat) * gif_height, roi_bounds[4] - roi_bounds[2])>>

\* pixel_x, pixel_y of the point (lon, lat) in a GIF of W x H pixels
get_pixel_coordinates_from_geo(lon, lat, roi_bounds, gif_width, gif_height) ==
    LET pixel_x == TruncDiv((lon - roi_bounds[1]) * gif_width, roi_bounds[3] - roi_bounds[1])
        pixel_y == TruncDiv((roi_bounds[4] - lat) * gif_height, roi_bounds[4] - roi_bounds[2])
    IN  <<Max(0, Min(gif_width - 1, pixel_x)), Max(0, Min(gif_height - 1, pixel_y))>>

Markers(pts, roi_bounds, g) ==
    [k \in 1..(g.n * Len(pts)) |->
        LET p == pts[((k - 1) % Len(pts)) + 1]
            xy == get_pixel_coordinates_from_geo(p[1], p[2], roi_bounds, g.W, g.H)
        IN  [x |-> xy[1], y |-> xy[2], text |-> "marker", bar |-> 0]]

add_sample_markers_to_gif(w, in_gif, out_gif, sample_points, roi_bounds) ==
    IF ~Exists(w, in_gif) THEN Outcome(w, Raises("FileNotFoundError"))
    ELSE
    LET w1 == EnsureDir(w, DirOf(out_gif))
        g == w1.gifs[in_gif]
    IN  IF ~Readable(g) THEN Outcome(w1, Raises("Exception"))
        ELSE IF roi_bounds[3] = roi_bounds[1] \/ roi_bounds[4] = roi_bounds[2]
        THEN Outcome(w1, Raises("Exception"))
        ELSE Outcome(Logged([w1 EXCEPT !.gifs[out_gif] = g,
                                       !.drawn = Markers(sample_points, roi_bounds, g)],
                            <<"save", out_gif>>), None)

ChartFrame(i) == "chart/frame_" \o ToString(i) \o ".png"
ChartFrames(w, n) == [w |-> w, n |-> n]

\* create_time_series_chart_frames and its two variants: data is the number of
\* sampled series, count the number of their dates; ok: matplotlib draws them.
create_time_series_chart_frames(w, data, count, ok) ==
    IF data = 0 \/ count = 0 THEN ChartFrames(w, 0)
    ELSE LET w1 == Logged([w EXCEPT !.dirs = @ \cup {"chart"}], <<"mkdtemp", "chart">>)
         IN  IF ok
             THEN ChartFrames([w1 EXCEPT !.files = @ \cup {ChartFrame(i) : i \in 1..count}],
                              count)
             ELSE ChartFrames(Logged(w1, <<"print", "Error creating chart frames">>), 0)

\* chart_size is the size of the chart images.
combine_gif_with_chart(w, base_gif, chart_frames, chart_position, spacer_width, chart_size) ==
    IF ~Exists(w, base_gif) THEN Outcome(w, Raises("FileNotFoundError"))
    ELSE IF ~Readable(w.gifs[base_gif]) THEN Outcome(w, Raises("UnidentifiedImageError"))
    ELSE
    LET g == w.gifs[base_gif]
        w1 == Logged([w EXCEPT !.dirs = @ \cup {"combine"}], <<"mkdtemp", "combine">>)
        size == IF chart_frames = 0 THEN <<g.W, g.H>>
                ELSE IF chart_position = "bottom"
                THEN <<Max(g.W, chart_size[1]), g.H + spacer_width + chart_size[2]>>
                ELSE <<g.W + spacer_width + chart_size[1], Max(g.H, chart_size[2])>>
        output_path == ChartOf(base_gif)
        w2 == Logged([w1 EXCEPT !.gifs[output_path] = [W |-> size[1], H |-> size[2], n |-> g.n]],
                     <<"save", output_path>>)
    IN  Outcome([w2 EXCEPT !.files = @ \ {ChartFrame(i) : i \in 1..chart_frames}],
                Returns(output_path))

\* What the three functions do once the time series is there: sample the
\* points, draw the markers, make the chart, convert, return.
SampleAndChart(w, base_gif, sp, a, e) ==
    LET w1 == Remote(w, "sample")
        data == IF e.sample_ok THEN Len(sp.pts) ELSE 0
        w2 == Logged(w1, <<"print", IF e.sample_ok THEN "valid samples"
                                     ELSE "Error during point sampling">>)
        marked == add_sample_markers_to_gif(Called(Remote(w2, "bounds"), "add_sample_markers_to_gif"),
                                            base_gif, base_gif, sp.pts, e.bounds)
        w3 == IF ~a.show_sample_markers THEN w2
              ELSE IF ~e.bounds_ok
              THEN Logged(Remote(w2, "bounds"), <<"print", "Error adding markers to GIF">>)
              ELSE Logged(marked.w, <<"print", IF marked.ret.exc = "none"
                                               THEN "Added sample markers to GIF"
                                               ELSE "Error adding markers to GIF">>)
        frames == create_time_series_chart_frames(w3, data, e.ts_size, e.chart_ok)
        combined == combine_gif_with_chart(Called(frames.w, "combine_gif_with_chart"), base_gif,
                                           frames.n, a.chart_position, 20, e.chart_size)
        charted == combined.ret.exc = "none"
        w4 == IF data = 0
              THEN Logged(w3, <<"print", "No sample data available.">>)
              ELSE Logged(combined.w, <<"print", IF charted THEN "Created time series chart"
                                                 ELSE "Error creating chart">>)
        final_gif == IF data > 0 /\ charted THEN combined.ret.val ELSE base_gif
    IN  MapOnly(w4, final_gif, a.mp4, e)

\* The lines of a function with sample points between its base timelapse and
\* its time series: base is the outcome of the base timelapse.  The call is
\* done with outcome o, or it goes on to the time series from base.
AfterBase(base, sp, a, e) ==
    IF base.ret.exc # "none"
    THEN [done |-> TRUE,
          o |-> Outcome(Logged(base.w, <<"print", "Error creating base timelapse">>), base.ret)]
    ELSE IF base.ret.val = "None"
    THEN [done |-> TRUE, o |-> Outcome(base.w, Raises("TypeError"))]
    ELSE IF ~Exists(base.w, base.ret.val)
    THEN [done |-> TRUE, o |-> Outcome(base.w, Raises("FileNotFoundError"))]
    ELSE IF sp = SPNone
    THEN [done |-> TRUE,
          o |-> MapOnly(Logged(base.w, <<"print", "No sample points provided.">>),
                        base.ret.val, a.mp4, e)]
    ELSE [done |-> FALSE, o |-> base]

\* except Exception as e: print("Error creating time series"); if mp4: ...; return base_gif
TsFailed(w, base_gif, a, e) ==
    MapOnly(Logged(w, <<"print", "Error creating time series">>), base_gif, a.mp4, e)

\* if size == 0: print(warning); if mp4: ...; return base_gif, inside the try
TsEmpty(w, base_gif, a, e, warning) ==
    LET empty == MapOnly(Logged(w, <<"print", warning>>), base_gif, a.mp4, e)
    IN  IF empty.ret.exc # "none" THEN TsFailed(empty.w, base_gif, a, e) ELSE empty

\* try: ... ts_size = ts_collection.size().getInfo(); if ts_size == 0: ...
\* except: ...: ts is the outcome of building the time series.
WithTimeSeries(ts, base_gif, sp, a, e) ==
    IF ts.ret.exc # "none" \/ ts.ret.val = "None" THEN TsFailed(ts.w, base_gif, a, e)
    ELSE IF ~e.ts_ok THEN TsFailed(Remote(ts.w, "size"), base_gif, a, e)
    ELSE IF e.ts_size = 0
    THEN TsEmpty(Remote(ts.w, "size"), base_gif, a, e, "Warning: No time series data generated")
    ELSE SampleAndChart(Logged(Remote(ts.w, "size"), <<"print", "Generated time series images">>),
                        base_gif, sp, a, e)

TimeSeriesOutcome(w, t) ==
    Outcome(w, IF t.exc = "none" THEN Returns("ImageCollection") ELSE Raises(t.exc))

sentinel1_timelapse_with_samples(w, a, e) ==
    LET v == ValidateSamplePoints(a.sample_points)
        adj == AdjustDimensions(w, a.roi, a.dimensions, e)
        ts(w1) == TimeSeriesOutcome(w1, create_timeseries("collection", a.frequency,
                                                          a.reducer_ok, TRUE, a.date_format,
                                                          a.dates_ok))
        sampled(w1, base_gif) ==
            IF ~e.ts_ok THEN TsFailed(Remote(w1, "size"), base_gif, a, e)
            ELSE IF e.ts_size = 0
            THEN TsEmpty(Remote(w1, "size"), base_gif, a, e,
                         "Warning: No Sentinel-1 images found for the specified parameters")
            ELSE WithTimeSeries(ts(Logged(Remote(w1, "size"), <<"print", "Found Sentinel-1 images">>)),
                                base_gif, v.sp, a, e)
    IN  IF v.exc # "none" THEN Outcome(w, Raises(v.exc))
        ELSE IF adj.ret.exc # "none" THEN Outcome(adj.w, adj.ret)
        ELSE LET ab == AfterBase(sentinel1_timelapse(Called(adj.w, "sentinel1_timelapse"), a,
                                                     adj.dims, e), v.sp, a, e)
             IN  IF ab.done THEN ab.o ELSE sampled(ab.o.w, ab.o.ret.val)

\* indices is None, a list of index names, or one name (made a list of one).
IndicesNone == [kind |-> "none", l |-> <<>>]
IndicesList(l) == [kind |-> "list", l |-> l]
IndicesScalar(x) == [kind |-> "scalar", l |-> <<x>>]

S2ValidIndices == {"NDVI", "EVI", "NDWI", "MNDWI", "NDBI", "NBR", "SAVI", "GNDVI", "NDRE", "CIRE"}
LandsatValidIndices == {"NDVI", "EVI", "NDWI", "MNDWI", "NDBI", "NBR", "SAVI", "GNDVI", "NDMI",
                        "TCB", "TCG", "TCW", "MSAVI2", "VARI", "MCARI"}

\* "Handle indices parameter": what it makes of bands, palette and vis_params.
Indexed(a, valid) ==
    LET l == a.indices.l
        has == a.indices.kind # "none"
        single == has /\ Len(l) = 1
        styled == single /\ a.vis_params = VisNone /\ a.palette = "none"
    IN  [exc |-> IF has /\ \E i \in 1..Len(l) : l[i] \notin valid THEN "ValueError" ELSE "none",
         has |-> has,
         bands |-> IF single /\ Len(a.bands) = 3 THEN l ELSE a.bands,
         palette |-> IF styled THEN "list" ELSE a.palette,
         vis_params |-> IF styled THEN VisDict({"min", "max", "palette"}) ELSE a.vis_params]

create_sentinel2_index_timelapse(w, a, ix, dimensions, e) ==
    LET s2 == sentinel2_timeseries(<<>>, a.frequency, a.reducer_ok, TRUE, a.date_format,
                                   a.dates_ok)
    IN  IF a.roi = "other" THEN Outcome(w, Raises("Exception"))
        ELSE IF s2.ts.exc # "none" THEN Outcome(w, Raises(s2.ts.exc))
        ELSE create_timelapse(Called(w, "create_timelapse"),
                              BaseArgs(a, ix.bands, "none", ix.vis_params, dimensions), e)

sentinel2_timelapse_with_samples(w, a, e) ==
    LET ix == Indexed(a, S2ValidIndices)
        v == ValidateSamplePoints(a.sample_points)
        adj == AdjustDimensions(w, a.roi, a.dimensions, e)
        s2 == sentinel2_timelapse(Called(adj.w, "sentinel2_timelapse"), <<>>,
                                  [a EXCEPT !.bands = S2BandsList(ix.bands),
                                            !.dimensions = adj.dims, !.mp4 = FALSE], e)
        base == IF ix.has
                THEN create_sentinel2_index_timelapse(
                         Called(adj.w, "create_sentinel2_index_timelapse"), a, ix, adj.dims, e)
                ELSE Outcome(s2.w, s2.ret)
        ts(w1) == TimeSeriesOutcome(w1, sentinel2_timeseries(<<>>, a.frequency, a.reducer_ok,
                                                             TRUE, a.date_format, a.dates_ok).ts)
    IN  IF ix.exc # "none" THEN Outcome(w, Raises(ix.exc))
        ELSE IF v.exc # "none" THEN Outcome(w, Raises(v.exc))
        ELSE IF adj.ret.exc # "none" THEN Outcome(adj.w, adj.ret)
        ELSE LET ab == AfterBase(base, v.sp, a, e)
             IN  IF ab.done THEN ab.o
                 ELSE WithTimeSeries(ts(ab.o.w), ab.o.ret.val, v.sp, a, e)

LandsatAllowedBands == {"Blue", "Green", "Red", "NIR", "SWIR1", "SWIR2", "pixel_qa"}

\* landsat_timelapse as landsat_timelapse_with_samples calls it: nd_bands is
\* None and mp4 is False.  Whatever is raised in its try leaves it as Exception.
landsat_timelapse(w, a, dimensions, e) ==
    IF a.roi = "other" THEN Outcome(w, Raises("ValueError"))
    ELSE IF a.out_gif # "None" /\ ~EndsWithGif(a.out_gif) THEN Outcome(w, Raises("ValueError"))
    ELSE
    LET out_gif == IF a.out_gif = "None" THEN "t.gif" ELSE a.out_gif
        w1 == EnsureDir(w, DirOf(out_gif))
        b == [a EXCEPT !.mp4 = FALSE, !.dimensions = dimensions]
        raw_col == landsat_timeseries(w1, a)
        col == IF raw_col.ret.exc # "none" THEN raw_col
               ELSE IF raw_col.ret.val = "None" THEN Outcome(raw_col.w, Raises("AttributeError"))
               ELSE IF a.overlay = "bad" THEN Outcome(raw_col.w, Raises("Exception"))
               ELSE raw_col
        texts(v) == IF Exists(v, out_gif) THEN AddTexts(v, out_gif, b, e) ELSE Outcome(v, None)
        o == Try(Try(Try(col,
                         LAMBDA v : GenerateGif(Logged(v, <<"step", "generate">>), out_gif,
                                                IsLarge(dimensions), e)),
                     texts),
                 LAMBDA v : FinishGif(v, out_gif, b, e))
    IN  IF ~(Len(a.bands) = 3 /\ \A i \in 1..Len(a.bands) : a.bands[i] \in LandsatAllowedBands)
        THEN Outcome(w1, Raises("Exception"))
        ELSE IF o.ret.exc # "none" THEN Outcome(o.w, Raises("Exception"))
        ELSE o

create_landsat_index_timelapse(w, a, ix, dimensions, e) ==
    LET col == landsat_timeseries(w, a)
    IN  IF col.ret.exc # "none" THEN col
        ELSE IF col.ret.val = "None" THEN Outcome(col.w, Raises("AttributeError"))
        ELSE create_timelapse(Called(col.w, "create_timelapse"),
                              BaseArgs(a, ix.bands, "none", ix.vis_params, dimensions), e)

landsat_timelapse_with_samples(w, a, e) ==
    LET ix == Indexed(a, LandsatValidIndices)
        v == ValidateSamplePoints(a.sample_points)
        adj == AdjustDimensions(w, a.roi, a.dimensions, e)
        c == [a EXCEPT !.bands = ix.bands]
        base == IF ix.has
                THEN create_landsat_index_timelapse(
                         Called(adj.w, "create_landsat_index_timelapse"), a, ix, adj.dims, e)
                ELSE landsat_timelapse(Called(adj.w, "landsat_timelapse"), c, adj.dims, e)
    IN  IF ix.exc # "none" THEN Outcome(w, Raises(ix.exc))
        ELSE IF v.exc # "none" THEN Outcome(w, Raises(v.exc))
        ELSE IF adj.ret.exc # "none" THEN Outcome(adj.w, adj.ret)
        ELSE LET ab == AfterBase(base, v.sp, a, e)
             IN  IF ab.done THEN ab.o
                 ELSE WithTimeSeries(landsat_timeseries(ab.o.w, a), ab.o.ret.val, v.sp, a, e)

----------------------------------------------------------------------------
(* The state machine.  A step is one call: it starts from the file system  *)
(* as it is, and leaves the call, its outcome, its events and its draw     *)
(* operations in the state.                                                *)

NoCall == [op |-> "none"]
Fresh == call = NoCall

Effect(c, o) ==
    /\ gifs' = o.w.gifs
    /\ dirs' = o.w.dirs
    /\ files' = o.w.files
    /\ log' = o.w.log
    /\ drawn' = o.w.drawn
    /\ ret' = o.ret
    /\ call' = c
    /\ UNCHANGED tools

Commit(c, o) == Effect(c, o) /\ UNCHANGED s2_bands

S2DefaultBands == <<"NIR", "Red", "Green">>

\* The machine before the first call: the disk holds a.gif (readable or not),
\* b.gif may exist, and a directory exists when a file is in it.
InitEnv(toolsets, filesets, dirsets) ==
    /\ gifs \in {[f \in GifNames |-> CASE f = "a.gif" -> m [] f = "b.gif" -> b [] OTHER -> NoGif] :
                    m \in GifMetas \cup {BadGif},
                    b \in {NoGif, [W |-> 200, H |-> 100, n |-> 1]}}
    /\ dirs \in dirsets
    /\ gifs["b.gif"] # NoGif => "d2" \in dirs
    /\ files \in filesets
    /\ tools \in toolsets
    /\ s2_bands = S2DefaultBands
    /\ call = NoCall
    /\ ret = None
    /\ log = <<>>
    /\ drawn = <<>>

XYValues ==
    {XYNone,
     XYTuple(<<IntItem(10), IntItem(10)>>),
     XYTuple(<<IntItem(0), IntItem(10)>>),
     XYTuple(<<IntItem(300), IntItem(10)>>),
     XYList(<<IntItem(10), IntItem(10)>>),
     XYTuple(<<PctItem(50), PctItem(50)>>),
     XYTuple(<<PctItem(100), PctItem(100)>>),
     XYTuple(<<PctItem(150), PctItem(50)>>),
     XYTuple(<<PctItem(50), PctItem(-10)>>),
     XYTuple(<<StrItem(10), StrItem(10)>>),
     XYTuple(<<BadPctItem, PctItem(5)>>),
     XYTuple(<<PctItem(50), IntItem(10)>>),
     XYTuple(<<FloatItem(1), FloatItem(2)>>),
     XYTuple(<<IntItem(10), IntItem(10), IntItem(20), IntItem(20)>>),
     XYTuple(<<PctItem(10), PctItem(10), PctItem(20), PctItem(20)>>),
     XYTuple(<<StrItem(10), StrItem(10), StrItem(20), StrItem(20)>>),
     XYTuple(<<FloatItem(1), FloatItem(1), FloatItem(2), FloatItem(2)>>),
     XYList(<<IntItem(10), IntItem(10), IntItem(20), IntItem(20)>>),
     XYList(<<PctItem(10), PctItem(10), PctItem(20), PctItem(20)>>),
     XYTuple(<<IntItem(10)>>),
     XYTuple(<<>>)}

Labels(k) == [i \in 1..k |-> "t" \o ToString(i)]

TSValues ==
    {TSNone, TSInt(5), TSStr("7"), TSStr("title"), TSTuple(Labels(1))}
    \cup {TSList(Labels(k)) : k \in 0..(MaxFrames + 1)}

LogoValues == {Logo(FALSE, FALSE, 0, 0), Logo(TRUE, FALSE, 0, 0),
               Logo(TRUE, TRUE, 160, 100), Logo(TRUE, TRUE, 30, 90)}

AddTextToGif ==
    /\ Fresh
    /\ \E in_gif \in UserGifs, out_gif \in UserGifs, xy \in XYValues,
       text_sequence \in TSValues, add_progress_bar \in BOOLEAN :
        Commit([op |-> "add_text_to_gif", in_gif |-> in_gif, out_gif |-> out_gif,
                xy |-> xy, text_sequence |-> text_sequence],
               add_text_to_gif(World, in_gif, out_gif, xy, text_sequence, add_progress_bar))

AddImageToGif ==
    /\ Fresh
    /\ \E in_gif \in UserGifs, out_gif \in UserGifs, xy \in XYValues, logo \in LogoValues :
        Commit([op |-> "add_image_to_gif", in_gif |-> in_gif, out_gif |-> out_gif,
                xy |-> xy, logo |-> logo],
               add_image_to_gif(World, in_gif, out_gif, logo, xy, <<80, 80>>))

VectorToGif ==
    /\ Fresh
    /\ \E out_gif \in UserGifs, xy \in XYValues, colname_ok \in BOOLEAN,
       count \in 1..MaxFrames, add_text \in BOOLEAN, opts \in BOOLEAN, ok \in BOOLEAN :
        Commit([op |-> "vector_to_gif", in_gif |-> "None", out_gif |-> out_gif, xy |-> xy,
                add_text |-> add_text],
               vector_to_gif(World, out_gif, colname_ok, <<10, 20, 70, 60>>, count, xy,
                             add_text, opts, opts, ~opts, ok))

AddProgressBarToGif ==
    /\ Fresh
    /\ \E in_gif \in UserGifs, out_gif \in UserGifs :
        Commit([op |-> "add_progress_bar_to_gif", in_gif |-> in_gif, out_gif |-> out_gif],
               add_progress_bar_to_gif(World, in_gif, out_gif))

ReduceGifSize ==
    /\ Fresh
    /\ \E in_gif \in UserGifs, out_gif \in UserGifs \cup {"None"}, ok \in BOOLEAN :
        Commit([op |-> "reduce_gif_size", in_gif |-> in_gif, out_gif |-> out_gif],
               reduce_gif_size(World, in_gif, out_gif, ok))

\* The GIF annotation functions: one call on a disk in any of the initial states.
InitGif == InitEnv({{}, {"ffmpeg"}}, {{}}, {{"d1"}, {"d1", "d2"}})
NextGif ==
    \/ AddTextToGif
    \/ AddImageToGif
    \/ VectorToGif
    \/ AddProgressBarToGif
    \/ ReduceGifSize
SpecGif == InitGif /\ [][NextGif]_vars

----------------------------------------------------------------------------
(* The encoder functions: one call on a disk in any of the initial states, *)
(* which may hold image files and an MP4 file from earlier work.           *)

GifToMp4 ==
    /\ Fresh
    /\ \E in_gif \in UserGifs, ok \in BOOLEAN :
        Commit([op |-> "gif_to_mp4", in_gif |-> in_gif, out |-> Mp4Of(in_gif)],
               gif_to_mp4(World, in_gif, ok))

MergeGifs ==
    /\ Fresh
    /\ \E is_list \in BOOLEAN, in_gifs \in SUBSET UserGifs, out_gif \in UserGifs,
          ok \in BOOLEAN :
        Commit([op |-> "merge_gifs", in_gif |-> "None", out |-> out_gif, is_list |-> is_list],
               merge_gifs(World, is_list, in_gifs, out_gif, ok))

GifToPng ==
    /\ Fresh
    /\ \E in_gif \in UserGifs, verbose \in BOOLEAN, ok \in BOOLEAN :
        Commit([op |-> "gif_to_png", in_gif |-> in_gif, out |-> TempDirOf(in_gif)],
               gif_to_png(World, in_gif, TempDirOf(in_gif), verbose, ok))

GifFading ==
    /\ Fresh
    /\ \E in_gif \in UserGifs, out_gif \in UserGifs, verbose \in BOOLEAN,
          ok1 \in BOOLEAN, ok2 \in BOOLEAN :
        Commit([op |-> "gif_fading", in_gif |-> in_gif, out |-> out_gif],
               gif_fading(World, in_gif, out_gif, verbose, ok1, ok2))

ImageLists == {<<>>, <<<<1>>>>, <<<<1>>, <<2>>>>, <<<<2>>, <<1>>>>, <<<<1>>, <<3>>>>}

MakeGif ==
    /\ Fresh
    /\ \E is_list \in BOOLEAN, images \in ImageLists, out_gif \in UserGifs,
          mp4 \in BOOLEAN, clean_up \in BOOLEAN, ok \in BOOLEAN :
        Commit([op |-> "make_gif", in_gif |-> "None", out |-> out_gif, mp4 |-> mp4],
               make_gif(World, is_list, images, <<200, 100>>, out_gif, mp4, clean_up, ok))

InitEnc ==
    /\ InitEnv(SUBSET {"ffmpeg", "gifsicle"},
               {old \cup {JpgName(<<1>>), JpgName(<<2>>)} : old \in SUBSET {"a.mp4"}},
               {{"d1"}, {"d1", "d2"}, {"d1", "d2", "tmp/a"}})
    /\ "tmp/a" \in dirs => files = {JpgName(<<1>>), JpgName(<<2>>)}
NextEnc ==
    \/ GifToMp4
    \/ MergeGifs
    \/ GifToPng
    \/ GifFading
    \/ MakeGif
SpecEnc == InitEnc /\ [][NextEnc]_vars

----------------------------------------------------------------------------
(* create_timelapse: one call on a disk in any of the initial states.  The *)
(* arguments are the defaults of the signature with some of them replaced. *)

BandsValues == {BandsNone, BandsStr, BandsList(1), BandsList(2), BandsList(3), BandsOther}

VisValues == {VisNone, VisOther, VisDict({}), VisDict({"palette"}), VisDict({"min", "max"}),
              VisDict({"bands", "min", "max", "palette"})}

DimValues == {DimInt(768), DimInt(1024), DimStr(<<500, 500>>), DimStr(<<1024, 500>>)}

CTDefaults ==
    [collection |-> "collection", frequency |-> "year", date_format |-> "None",
     reducer_ok |-> TRUE, dates_ok |-> TRUE, out_gif |-> "None", bands |-> BandsNone,
     palette |-> "none", vis_params |-> VisNone, dimensions |-> DimInt(768),
     overlay |-> "none", title |-> "None",
     title_xy |-> XYTuple(<<PctItem(2), PctItem(90)>>), add_text |-> TRUE,
     text_xy |-> XYTuple(<<PctItem(2), PctItem(2)>>), text_sequence |-> TSNone,
     add_progress_bar |-> TRUE, add_colorbar |-> FALSE, colorbar_xy |-> XYNone,
     colorbar_size |-> <<300, 300>>, mp4 |-> FALSE, fading |-> 0]

\* The remote service and the encoders: all work, or exactly one fails.
Oracles ==
    {[dl_ok |-> f # "dl", reduce_ok |-> f # "reduce", fade_ok |-> f # "fade",
      mp4_ok |-> f # "mp4"] : f \in {"none", "dl", "reduce", "fade", "mp4"}}
AllOk == [dl_ok |-> TRUE, reduce_ok |-> TRUE, fade_ok |-> TRUE, mp4_ok |-> TRUE]
Colorbar == Logo(TRUE, TRUE, 600, 40)
Env(o, count, size, nbands) ==
    [dl_ok |-> o.dl_ok, reduce_ok |-> o.reduce_ok, fade_ok |-> o.fade_ok, mp4_ok |-> o.mp4_ok,
     count |-> count, size |-> size, nbands |-> nbands, colorbar |-> Colorbar]

\* The selection of what is visualized, with and without a colorbar.
CTVisArgs ==
    {[CTDefaults EXCEPT !.bands = b, !.palette = p, !.vis_params = v, !.add_colorbar = c] :
        b \in BandsValues, p \in {"none", "str", "list", "other"}, v \in VisValues,
        c \in BOOLEAN}
\* The steps of the pipeline.
CTStepArgs ==
    {[CTDefaults EXCEPT !.dimensions = d, !.title = t, !.add_text = x, !.add_colorbar = c,
                        !.bands = IF c THEN BandsStr ELSE BandsNone,
                        !.mp4 = m, !.fading = f, !.out_gif = o] :
        d \in DimValues, t \in {"None", "title"}, x \in BOOLEAN, c \in BOOLEAN,
        m \in BOOLEAN, f \in {0, 1}, o \in UserGifs \cup {"None"}}
\* The arguments that are refused.
CTBadArgs ==
    {[CTDefaults EXCEPT !.collection = "other"], [CTDefaults EXCEPT !.collection = "str"],
     [CTDefaults EXCEPT !.frequency = "bogus"],
     [CTDefaults EXCEPT !.frequency = "bogus", !.date_format = "YYYY-MM-dd", !.dates_ok = FALSE],
     [CTDefaults EXCEPT !.frequency = "day", !.date_format = "YYYY-MM-dd"],
     [CTDefaults EXCEPT !.reducer_ok = FALSE], [CTDefaults EXCEPT !.overlay = "bad"],
     [CTDefaults EXCEPT !.overlay = "good"]}
\* The positions and the texts.
CTTextArgs ==
    {[CTDefaults EXCEPT !.title = "title", !.title_xy = xy] : xy \in XYValues}
    \cup {[CTDefaults EXCEPT !.text_xy = xy, !.add_progress_bar = FALSE] : xy \in XYValues}
    \cup {[CTDefaults EXCEPT !.text_sequence = ts] : ts \in TSValues}
    \cup {[CTDefaults EXCEPT !.bands = BandsStr, !.add_colorbar = TRUE, !.colorbar_xy = xy] :
             xy \in XYValues}

CreateTimelapse ==
    /\ Fresh
    /\ \E a \in CTVisArgs \cup CTBadArgs \cup CTTextArgs, size \in GifSizes, nbands \in {1, 4} :
        Commit([op |-> "create_timelapse", a |-> a, nbands |-> nbands],
               create_timelapse(World, a, Env(AllOk, MaxFrames, size, nbands)))

CreateTimelapseSteps ==
    /\ Fresh
    /\ \E a \in CTStepArgs, o \in Oracles, count \in 1..MaxFrames :
        Commit([op |-> "create_timelapse", a |-> a, nbands |-> 4],
               create_timelapse(World, a, Env(o, count, <<200, 100>>, 4)))

\* The large-dimension path with collections of up to MaxCount images.
CTLargeArgs ==
    {[CTDefaults EXCEPT !.dimensions = d, !.out_gif = o, !.add_text = x] :
        d \in {DimInt(1024), DimStr(<<1024, 500>>), DimStr(<<500, 769>>)},
        o \in {"None", "a.gif"}, x \in BOOLEAN}

CreateTimelapseLarge ==
    /\ Fresh
    /\ \E a \in CTLargeArgs, count \in 1..MaxCount :
        Commit([op |-> "create_timelapse", a |-> a, nbands |-> 4],
               create_timelapse(World, a, Env(AllOk, count, <<200, 100>>, 4)))

InitCT ==
    InitEnv({{}, {"ffmpeg"}, {"ffmpeg", "gifsicle"}}, {{}},
            {{"d1", "dl"}, {"d1", "d2", "dl"}})
NextCT ==
    \/ CreateTimelapse
    \/ CreateTimelapseSteps
    \/ CreateTimelapseLarge
SpecCT == InitCT /\ [][NextCT]_vars

----------------------------------------------------------------------------
(* sentinel2_timelapse: one call on a disk in any of the initial states.   *)

S2BandsValues ==
    {S2BandsDefault, S2BandsNone, S2BandsList(<<"NIR", "Red", "Green">>),
     S2BandsList(<<"B8", "B4", "B3">>), S2BandsList(<<"Red", "Green">>),
     S2BandsList(<<"Red", "Green", "B99">>), S2BandsList(<<>>)}

S2Defaults ==
    [roi |-> "none", out_gif |-> "None", bands |-> S2BandsDefault, frequency |-> "year",
     date_format |-> "None", reducer_ok |-> TRUE, dates_ok |-> TRUE,
     dimensions |-> DimInt(768), overlay |-> "none", title |-> "None",
     title_xy |-> XYTuple(<<PctItem(2), PctItem(90)>>), add_text |-> TRUE,
     text_xy |-> XYTuple(<<PctItem(2), PctItem(2)>>), text_sequence |-> TSNone,
     add_progress_bar |-> TRUE, mp4 |-> FALSE, fading |-> 0]

S2PathArgs ==
    {[S2Defaults EXCEPT !.roi = r, !.out_gif = o, !.bands = b] :
        r \in {"none", "feature", "geometry", "other"},
        o \in UserGifs \cup {"None", "a.txt"}, b \in S2BandsValues}
S2StepArgs ==
    {[S2Defaults EXCEPT !.dimensions = d, !.title = t, !.add_text = x, !.mp4 = m,
                        !.fading = f, !.out_gif = o] :
        d \in DimValues, t \in {"None", "title"}, x \in BOOLEAN, m \in BOOLEAN,
        f \in {0, 1}, o \in UserGifs \cup {"None"}}
S2BadArgs ==
    {[S2Defaults EXCEPT !.frequency = "bogus"],
     [S2Defaults EXCEPT !.frequency = "bogus", !.date_format = "YYYY-MM-dd", !.dates_ok = FALSE],
     [S2Defaults EXCEPT !.frequency = "day", !.date_format = "YYYY-MM-dd"],
     [S2Defaults EXCEPT !.reducer_ok = FALSE], [S2Defaults EXCEPT !.overlay = "bad"],
     [S2Defaults EXCEPT !.overlay = "good"]}
S2TextArgs ==
    {[S2Defaults EXCEPT !.title = "title", !.title_xy = xy] : xy \in XYValues}
    \cup {[S2Defaults EXCEPT !.text_xy = xy, !.add_progress_bar = FALSE] : xy \in XYValues}
    \cup {[S2Defaults EXCEPT !.text_sequence = ts] : ts \in TSValues}

S2Commit(c, r) == Effect(c, Outcome(r.w, r.ret)) /\ s2_bands' = r.default_bands

Sentinel2Timelapse ==
    /\ Fresh
    /\ \E a \in S2PathArgs \cup S2BadArgs \cup S2TextArgs, size \in GifSizes :
        S2Commit([op |-> "sentinel2_timelapse", a |-> a],
                 sentinel2_timelapse(World, s2_bands, a, Env(AllOk, MaxFrames, size, 13)))

Sentinel2TimelapseSteps ==
    /\ Fresh
    /\ \E a \in S2StepArgs, o \in Oracles, count \in 1..MaxFrames :
        S2Commit([op |-> "sentinel2_timelapse", a |-> a],
                 sentinel2_timelapse(World, s2_bands, a, Env(o, count, <<200, 100>>, 13)))

InitS2 ==
    InitEnv({{}, {"ffmpeg"}, {"ffmpeg", "gifsicle"}}, {{}},
            {{"d1"}, {"d1", "dl"}, {"d1", "d2", "dl"}})
NextS2 ==
    \/ Sentinel2Timelapse
    \/ Sentinel2TimelapseSteps
SpecS2 == InitS2 /\ [][NextS2]_vars

----------------------------------------------------------------------------
(* The legacy time series functions: one call each.                        *)

TsYears == {YearNone, YearStr(2020), YearInt(1980), YearInt(1984), YearInt(2015),
            YearInt(2020), YearInt(2026), YearInt(2030)}
TsDates == {MonthDay(TRUE, TRUE, 610), MonthDay(TRUE, TRUE, 920), MonthDay(TRUE, FALSE, 1345),
            MonthDay(FALSE, FALSE, 0)}
TsArgs ==
    [roi : {"none", "geometry", "feature", "other"},
     frequency : {"year", "quarter", "month", "day", "bogus"},
     date_format : {"None", "YYYY-MM-dd"},
     start_year : TsYears \ {YearNone}, end_year : TsYears,
     start_date : TsDates, end_date : TsDates]

LandsatTimeseries ==
    /\ Fresh
    /\ \E a \in TsArgs :
        Commit([op |-> "landsat_timeseries", a |-> a], landsat_timeseries(World, a))

Sentinel2TimeseriesLegacy ==
    /\ Fresh
    /\ \E a \in TsArgs :
        Commit([op |-> "sentinel2_timeseries_legacy", a |-> a],
               sentinel2_timeseries_legacy(World, a))

InitTs == InitEnv({{}}, {{}}, {{"d1"}})
NextTs ==
    \/ LandsatTimeseries
    \/ Sentinel2TimeseriesLegacy
SpecTs == InitTs /\ [][NextTs]_vars

----------------------------------------------------------------------------
(* sentinel1_filtering: one call on a collection of at most two images.    *)

S1Images ==
    [instrumentMode : {"IW", "EW"},
     transmitterReceiverPolarisation : {{"VV", "VH"}, {"HH", "HV"}},
     orbitProperties_pass : {"ASCENDING", "DESCENDING"},
     resolution : {"H", "M"}]

S1Collections == {c \in SUBSET S1Images : Cardinality(c) <= 2}

Sentinel1Filtering ==
    /\ Fresh
    /\ \E collection \in S1Collections, band \in {"VV", "HH", "B1"},
          instrumentMode \in {"None", "IW"},
          orbitProperties_pass \in {"None", "ASCENDING", "DESCENDING"},
          pol \in {"None", "VH"}, remove_outliers \in BOOLEAN,
          kwargs \in {{}, {<<"resolution", "H">>}} :
        Commit([op |-> "sentinel1_filtering", collection |-> collection, band |-> band,
                orbitProperties_pass |-> orbitProperties_pass],
               Outcome(World, sentinel1_filtering(collection, band, instrumentMode,
                                                  orbitProperties_pass, pol, remove_outliers,
                                                  kwargs)))

InitS1 == InitEnv({{}}, {{}}, {{"d1"}})
NextS1 ==
    \/ Sentinel1Filtering
SpecS1 == InitS1 /\ [][NextS1]_vars

----------------------------------------------------------------------------
(* get_pixel_coordinates_from_geo: one call with a point within MaxCoord   *)
(* degrees of the origin, inside or outside of roi_bounds.                 *)

MaxCoord == 3
PixelBounds ==
    {<<0, 0, 2, 1>>, <<0, 0, 1, 2>>, <<-1, -1, 2, 2>>, <<1, 0, 3, 3>>, <<0, 0, 0, 1>>,
     <<0, 1, 2, 1>>, <<2, 1, 0, 0>>}
PixelSizes == {1, 2, 3, 200}

\* The divisions of lines 6004-6005 raise when roi_bounds has no extent.
GetPixelCoordinatesFromGeo ==
    /\ Fresh
    /\ \E lon \in -MaxCoord..MaxCoord, lat \in -MaxCoord..MaxCoord, roi_bounds \in PixelBounds,
          gif_width \in PixelSizes, gif_height \in PixelSizes :
        Commit([op |-> "get_pixel_coordinates_from_geo", lon |-> lon, lat |-> lat,
                roi_bounds |-> roi_bounds, gif_width |-> gif_width, gif_height |-> gif_height],
               Outcome(World,
                       IF roi_bounds[3] = roi_bounds[1] \/ roi_bounds[4] = roi_bounds[2]
                       THEN Raises("ZeroDivisionError")
                       ELSE Returns(get_pixel_coordinates_from_geo(lon, lat, roi_bounds,
                                                                   gif_width, gif_height))))

InitPixel == InitEnv({{}}, {{}}, {{"d1"}})
NextPixel ==
    \/ GetPixelCoordinatesFromGeo
SpecPixel == InitPixel /\ [][NextPixel]_vars

----------------------------------------------------------------------------
(* The MODIS ocean color functions: one call each.                         *)

ModisDefaults ==
    [satellite |-> "Aqua", roi |-> "none"] @@ [CTDefaults EXCEPT !.palette = "str"]

ModisArgs ==
    {[ModisDefaults EXCEPT !.satellite = sat, !.roi = r, !.frequency = f, !.date_format = df,
                           !.out_gif = o, !.add_colorbar = c] :
        sat \in {"Terra", "Aqua", "Landsat"}, r \in {"none", "geometry", "other"},
        f \in {"year", "month", "day", "hour"}, df \in {"None", "YYYY-MM-dd", "YYYY"},
        o \in {"None", "a.gif"}, c \in BOOLEAN}

ModisOceanColorTimeseries ==
    /\ Fresh
    /\ \E a \in ModisArgs, drop_empty \in BOOLEAN, reducer_ok \in BOOLEAN :
        Commit([op |-> "modis_ocean_color_timeseries", a |-> a, drop_empty |-> drop_empty],
               modis_ocean_color_timeseries(World, a.satellite, a.roi, a.frequency, reducer_ok,
                                            drop_empty, a.date_format, TRUE))

ModisOceanColorTimelapse ==
    /\ Fresh
    /\ \E a \in ModisArgs, size \in GifSizes :
        Commit([op |-> "modis_ocean_color_timelapse", a |-> a],
               modis_ocean_color_timelapse(World, a, Env(AllOk, MaxFrames, size, 1)))

InitModis == InitEnv({{}, {"ffmpeg"}}, {{}}, {{"d1", "dl"}})
NextModis ==
    \/ ModisOceanColorTimeseries
    \/ ModisOceanColorTimelapse
SpecModis == InitModis /\ [][NextModis]_vars

----------------------------------------------------------------------------
(* The timelapse functions with sample points: one call on a disk in any   *)
(* of the initial states.                                                  *)

Points == <<<<0, 0>>, <<1, 1>>, <<2, 0>>, <<-1, 3>>, <<1, 0>>, <<2, 1>>>>
SPValues == {SPNone, SPOther} \cup {SPList(SubSeq(Points, 1, k)) : k \in {0, 1, 2, 5, 6}}
IndicesValues == {IndicesNone, IndicesList(<<"NDVI">>), IndicesList(<<"NDVI", "EVI">>),
                  IndicesScalar("NDVI"), IndicesList(<<"BOGUS">>)}

WSDefaults ==
    [roi |-> "geometry", sample_points |-> SPNone, marker_colors |-> MCNone,
     show_sample_markers |-> TRUE, chart_position |-> "right", indices |-> IndicesNone,
     start_year |-> YearInt(2015), end_year |-> YearNone,
     start_date |-> MonthDay(TRUE, TRUE, 610), end_date |-> MonthDay(TRUE, TRUE, 920)]
    @@ [CTDefaults EXCEPT !.bands = <<"NIR", "Red", "Green">>]
S1Defaults == [WSDefaults EXCEPT !.bands = <<"VV">>, !.palette = "str"]

\* What the service and the libraries do after the base timelapse: all works,
\* or one thing fails, or the time series is empty and the conversion fails.
SampleOracles ==
    {[dl_ok |-> f # "dl", reduce_ok |-> TRUE, fade_ok |-> TRUE,
      mp4_ok |-> f \notin {"mp4", "empty, mp4"},
      ts_ok |-> f # "ts", ts_size |-> IF f \in {"empty", "empty, mp4"} THEN 0 ELSE MaxFrames,
      sample_ok |-> f # "sample", bounds_ok |-> f # "bounds", chart_ok |-> f # "chart"] :
        f \in {"none", "dl", "mp4", "ts", "empty", "empty, mp4", "sample", "bounds", "chart"}}
SampleOk == CHOOSE o \in SampleOracles : o.dl_ok /\ o.mp4_ok /\ o.ts_ok /\ o.ts_size > 0
                                          /\ o.sample_ok /\ o.bounds_ok /\ o.chart_ok
BoundsValues == {<<0, 0, 2, 1>>, <<0, 0, 1, 1>>, <<0, 0, 1, 2>>, <<0, 0, 0, 1>>}
SampleEnv(o, bounds) ==
    [count |-> MaxFrames, size |-> <<200, 100>>, nbands |-> 13, colorbar |-> Colorbar,
     bounds |-> bounds, chart_size |-> <<160, 100>>] @@ o

\* The arguments that are validated, the steps after the base timelapse, and
\* the arguments of the base timelapse, for the defaults d of a function.
WSValidationArgs(d, bandlists) ==
    {[d EXCEPT !.sample_points = sp, !.indices = ix, !.roi = r, !.bands = b, !.out_gif = o] :
        sp \in SPValues, ix \in IndicesValues, r \in {"geometry", "feature", "other"},
        b \in bandlists, o \in {"None", "a.gif"}}
WSStepArgs(d) ==
    {[d EXCEPT !.sample_points = sp, !.mp4 = m, !.show_sample_markers = sh,
               !.chart_position = cp, !.dimensions = dim] :
        sp \in {SPNone, SPList(SubSeq(Points, 1, 2))}, m \in BOOLEAN, sh \in BOOLEAN,
        cp \in {"right", "bottom"},
        dim \in {DimInt(768), DimInt(1024), DimStr(<<500, 500>>)}}
    \cup {[d EXCEPT !.sample_points = sp, !.marker_colors = MCList(<<"black">>)] :
             sp \in {SPNone, SPList(SubSeq(Points, 1, 2))}}
WSBaseArgs(d) ==
    {[x EXCEPT !.sample_points = sp] :
        x \in {[d EXCEPT !.frequency = "bogus"], [d EXCEPT !.frequency = "day"],
               [d EXCEPT !.add_colorbar = TRUE], [d EXCEPT !.out_gif = "a.txt"],
               [d EXCEPT !.start_year = YearInt(1980)], [d EXCEPT !.title = "title"]},
        sp \in {SPNone, SPList(SubSeq(Points, 1, 2))}}
WSCalls(d, bandlists) ==
    {<<a, SampleEnv(SampleOk, <<0, 0, 2, 1>>)>> : a \in WSValidationArgs(d, bandlists) \cup WSBaseArgs(d)}
    \cup {<<a, SampleEnv(o, <<0, 0, 2, 1>>)>> : a \in WSStepArgs(d), o \in SampleOracles}
    \cup {<<a, SampleEnv(SampleOk, b)>> : a \in WSStepArgs(d), b \in BoundsValues}

Sentinel1TimelapseWithSamples ==
    /\ Fresh
    /\ \E c \in WSCalls(S1Defaults, {<<"VV">>, <<"VH", "VV">>, <<"XX">>}) :
        Commit([op |-> "sentinel1_timelapse_with_samples", a |-> c[1], e |-> c[2]],
               sentinel1_timelapse_with_samples(World, c[1], c[2]))

Sentinel2TimelapseWithSamples ==
    /\ Fresh
    /\ \E c \in WSCalls(WSDefaults, {<<"NIR", "Red", "Green">>, <<"Red">>, <<>>}) :
        Commit([op |-> "sentinel2_timelapse_with_samples", a |-> c[1], e |-> c[2]],
               sentinel2_timelapse_with_samples(World, c[1], c[2]))

LandsatTimelapseWithSamples ==
    /\ Fresh
    /\ \E c \in WSCalls([WSDefaults EXCEPT !.start_year = YearInt(1984)],
                        {<<"NIR", "Red", "Green">>, <<"Red">>, <<>>}) :
        Commit([op |-> "landsat_timelapse_with_samples", a |-> c[1], e |-> c[2]],
               landsat_timelapse_with_samples(World, c[1], c[2]))

InitSamples == InitEnv({{}, {"ffmpeg"}}, {{}}, {{"d1", "dl"}})
NextSamples ==
    \/ Sentinel1TimelapseWithSamples
    \/ Sentinel2TimelapseWithSamples
    \/ LandsatTimelapseWithSamples
SpecSamples == InitSamples /\ [][NextSamples]_vars

----------------------------------------------------------------------------
(* Properties of the GIF annotation functions (SpecGif)                    *)

Printed == \E i \in 1..Len(log) : log[i][1] = "print"
PrintedMsg(m) == \E i \in 1..Len(log) : log[i] = <<"print", m>>
Saved(f) == \E i \in 1..Len(log) : log[i] = <<"save", f>>

\* C1: in add_text_to_gif and add_image_to_gif every position used for drawing
\* lies within the frame of the input GIF: 0 <= x <= W and 0 <= y <= H.
C1_DrawnWithinFrame ==
    call.op \in {"add_text_to_gif", "add_image_to_gif"} =>
        \A i \in 1..Len(drawn) :
            /\ 0 <= drawn[i].x /\ drawn[i].x <= gifs[call.in_gif].W
            /\ 0 <= drawn[i].y /\ drawn[i].y <= gifs[call.in_gif].H

C6_FourElementXYRejected ==
    (call.op \in {"add_text_to_gif", "add_image_to_gif", "vector_to_gif"}
        /\ Len(call.xy.items) = 4) =>
        /\ drawn = <<>>
        /\ ~Saved(call.out_gif)
        /\ (call.op = "add_text_to_gif" => ret = None)
        /\ (call.op = "vector_to_gif" => ret.exc = "Exception")

C6_Witness ==
    /\ call.op = "add_text_to_gif"
    /\ call.xy = XYTuple(<<IntItem(10), IntItem(10), IntItem(20), IntItem(20)>>)
    /\ Readable(gifs[call.in_gif])
    /\ PrintedMsg("xy is invalid")
    /\ drawn = <<>>

\* C11: when the input GIF file does not exist, add_text_to_gif,
\* add_image_to_gif and reduce_gif_size print one message and return None:
\* nothing is raised, and no file and no directory is created (the disk after
\* the call is the disk before it).
C11_MissingInputPrintsAndReturns ==
    [][(call'.op \in {"add_text_to_gif", "add_image_to_gif", "reduce_gif_size"}
            /\ gifs[call'.in_gif] = NoGif) =>
          /\ ret' = None
          /\ Len(log') = 1
          /\ log'[1][1] = "print"
          /\ log'[1][2] \in {"The input gif file does not exist.",
                             "ffmpeg is not installed on your computer."}
          /\ drawn' = <<>>
          /\ gifs' = gifs /\ files' = files /\ dirs' = dirs]_vars

C11_Witness ==
    /\ call.op = "add_text_to_gif"
    /\ call.in_gif = "b.gif"
    /\ call.out_gif = "b.gif"
    /\ gifs["b.gif"] = NoGif
    /\ "d2" \notin dirs
    /\ ret = None
    /\ log = <<<<"print", "The input gif file does not exist.">>>>

----------------------------------------------------------------------------
(* Properties of the encoder functions (SpecEnc)                           *)

Invokes(i) == log[i][1] = "system"
CheckedAfter(i) == i < Len(log) /\ log[i + 1] = <<"exists", log[i][3]>>

\* C3 as stated: after every invocation of an external encoder command the
\* invoking function checks that the expected output file exists.
C3_EveryEncoderCallChecked ==
    \A i \in 1..Len(log) : Invokes(i) => CheckedAfter(i)

\* C3 as amended: gif_to_mp4 and make_gif check that the MP4 file exists after
\* running ffmpeg and raise Exception when it does not, so they return only
\* when it exists; gif_to_png, gif_fading and merge_gifs run their command,
\* check nothing and return None whatever came of it.
C3_OnlyMp4OutputChecked ==
    \A i \in 1..Len(log) : Invokes(i) =>
        IF call.op \in {"gif_to_mp4", "make_gif"}
        THEN /\ CheckedAfter(i)
             /\ ret.exc = "none" => log[i][3] \in files
             /\ log[i][3] \notin files => ret.exc = "Exception"
        ELSE /\ call.op \in {"gif_to_png", "gif_fading", "merge_gifs"}
             /\ \A j \in 1..Len(log) : log[j][1] # "exists"
             /\ ret = None

C3_Witness ==
    /\ call.op = "gif_to_mp4"
    /\ \E i \in 1..Len(log) : Invokes(i) /\ CheckedAfter(i)
    /\ call.out \notin files
    /\ ret.exc = "Exception"

\* C4: gif_to_png and gif_fading raise an exception when ffmpeg is not
\* installed, and merge_gifs raises one when gifsicle is not installed.
C4_MissingToolRaises ==
    /\ (call.op \in {"gif_to_png", "gif_fading"} /\ "ffmpeg" \notin tools) => ret.exc # "none"
    /\ (call.op = "merge_gifs" /\ "gifsicle" \notin tools) => ret.exc # "none"

----------------------------------------------------------------------------
(* Properties of create_timelapse (SpecCT)                                 *)

Step(i, name) == log[i] = <<"step", name>>
CallTo(i, f) == log[i] = <<"call", f>>

\* C9: whenever create_timelapse gets to its colorbar step (add_colorbar is
\* True and the bands, the palette and vis_params were accepted and the earlier
\* steps did not raise), it composites a colorbar onto out_gif with
\* add_image_to_gif, whatever the bands selection, more than one band included.
C9_ColorbarForEveryBands ==
    call.op = "create_timelapse" =>
        \A i \in 1..Len(log) : Step(i, "colorbar") =>
            \E j \in (i + 1)..Len(log) : CallTo(j, "add_image_to_gif")

\* The events that start a step of the pipeline, and those a call with the
\* arguments a starts when no step raises; reduced tells whether out_gif
\* exists when the annotations are done.
StepStarts ==
    {<<"step", "generate">>, <<"step", "title">>, <<"step", "text">>, <<"step", "colorbar">>,
     <<"call", "reduce_gif_size">>, <<"call", "gif_fading">>, <<"call", "gif_to_mp4">>}
IsStepStart(ev) == ev \in StepStarts
StepsRequested(a, reduced) ==
    <<<<"step", "generate">>>>
    \o (IF a.title # "None" THEN <<<<"step", "title">>>> ELSE <<>>)
    \o (IF a.add_text THEN <<<<"step", "text">>>> ELSE <<>>)
    \o (IF a.add_colorbar THEN <<<<"step", "colorbar">>>> ELSE <<>>)
    \o (IF reduced THEN <<<<"call", "reduce_gif_size">>>> ELSE <<>>)
    \o (IF a.fading > 0 THEN <<<<"call", "gif_fading">>>> ELSE <<>>)
    \o (IF a.mp4 THEN <<<<"call", "gif_to_mp4">>>> ELSE <<>>)
IsPrefix(s, t) == Len(s) <= Len(t) /\ s = SubSeq(t, 1, Len(s))
CTOutGif == IF call.a.out_gif = "None" THEN "t.gif" ELSE call.a.out_gif

\* C15: the steps that create_timelapse starts on out_gif are, in this order,
\* generation, title, date text, colorbar, reduction, fading and MP4
\* conversion, each one requested and none twice; a call that returns has
\* started all the requested ones, a call that raises a first part of them;
\* the MP4 conversion is invoked after the last writing of out_gif.
C15_StepsInOrder ==
    (call.op = "create_timelapse" /\ \E i \in 1..Len(log) : log[i] = <<"step", "generate">>) =>
        LET steps == SelectSeq(log, IsStepStart)
            requested == StepsRequested(call.a, gifs[CTOutGif] # NoGif)
        IN  /\ IsPrefix(steps, requested)
            /\ ret.exc = "none" => steps = requested
            /\ \A i \in 1..Len(log) : log[i] = <<"call", "gif_to_mp4">> =>
                    \A j \in (i + 1)..Len(log) : log[j] # <<"save", CTOutGif>>

C15_Witness ==
    /\ call.op = "create_timelapse"
    /\ ret = Returns("a.gif")
    /\ "a.mp4" \in files
    /\ SelectSeq(log, IsStepStart) =
            <<<<"step", "generate">>, <<"step", "title">>, <<"step", "text">>,
              <<"step", "colorbar">>, <<"call", "reduce_gif_size">>, <<"call", "gif_fading">>,
              <<"call", "gif_to_mp4">>>>

FramesAt(i) == log[i][1] = "frames"
\* str(k) filled with zeros to some width
Numbered(name, k) == \E width \in 1..3 : name = DigitsStr(ZFill(Digits(k), width))

\* C12: on the large-dimension path of create_timelapse the frames of the
\* assembled GIF are in the time order of the collection, for every frame
\* count: the k-th frame that make_gif writes is the image file with number k,
\* and out_gif has as many frames as files were written into it.
C12_FramesInIndexOrder ==
    (call.op = "create_timelapse" /\ IsLarge(call.a.dimensions)) =>
        \A i \in 1..Len(log) : FramesAt(i) =>
            \A k \in 1..(Len(log[i]) - 1) : Numbered(log[i][k + 1], k)

C12_Witness ==
    /\ call.op = "create_timelapse"
    /\ call.a.dimensions = DimInt(1024)
    /\ ret.exc = "none"
    /\ \E i \in 1..Len(log) :
          /\ FramesAt(i)
          /\ Len(log[i]) = 13
          /\ log[i][3] = "02"
          /\ log[i][11] = "10"
          /\ log[i][13] = "12"

----------------------------------------------------------------------------
(* Properties of sentinel2_timelapse (SpecS2)                              *)

S2Call == call.op = "sentinel2_timelapse"
S2OutGif == IF call.a.out_gif = "None" THEN "t.gif" ELSE call.a.out_gif
S2Refused == call.a.roi = "other" \/ (call.a.out_gif # "None" /\ ~EndsWithGif(call.a.out_gif))
LastPrinted == Len(log) > 0 /\ log[Len(log)][1] = "print"

C10_DefaultsUnchanged ==
    s2_bands = S2DefaultBands

----------------------------------------------------------------------------
(* Properties of sentinel1_filtering (SpecS1)                              *)

\* C14: sentinel1_filtering called without orbitProperties_pass keeps only
\* the images of the ascending orbit.
C14_DefaultKeepsAscending ==
    (call.op = "sentinel1_filtering" /\ call.orbitProperties_pass = "None"
        /\ ret.exc = "none") =>
        \A img \in ret.val.images : img.orbitProperties_pass = "ASCENDING"

----------------------------------------------------------------------------
(* Properties of the MODIS ocean color functions (SpecModis)               *)

\* C13: modis_ocean_color_timelapse builds its time series with the caller's
\* date_format as the date format (the format of the frequency when it is
\* None) and with drop_empty True, whatever date_format is passed.
C13_DateFormatAndDropEmptyPassed ==
    call.op = "modis_ocean_color_timelapse" =>
        \A i \in 1..Len(log) : log[i][1] = "timeseries" =>
            /\ log[i][2] = (IF call.a.date_format = "None" THEN FeqFormat(call.a.frequency)
                            ELSE call.a.date_format)
            /\ log[i][3] = "True"

----------------------------------------------------------------------------
(* Properties of the legacy time series functions (SpecTs)                 *)

\* C8: landsat_timeseries and sentinel2_timeseries_legacy raise ValueError for
\* a frequency that is not year, quarter or month, whatever the other
\* arguments are, date_format=None included.
C8_BadFrequencyRaisesValueError ==
    (call.op \in {"landsat_timeseries", "sentinel2_timeseries_legacy"}
        /\ call.a.frequency \notin {"year", "quarter", "month"}) =>
        ret.exc = "ValueError"

----------------------------------------------------------------------------
(* Properties of the timelapse functions with sample points (SpecSamples)  *)

WithSamples == {"sentinel1_timelapse_with_samples", "sentinel2_timelapse_with_samples",
                "landsat_timelapse_with_samples"}

\* C7: a call of one of the three *_timelapse_with_samples functions with a
\* list of more than five sample points, or with sample_points a value that
\* is not a list, raises ValueError, and it does so before any remote request
\* and any file write: the call leaves no event and the disk is what it was.
C7_TooManySamplePointsRejected ==
    [][(call'.op \in WithSamples
            /\ \/ call'.a.sample_points.kind = "other"
               \/ call'.a.sample_points.kind = "list"
                    /\ Len(call'.a.sample_points.pts) > MaxSamplePoints) =>
          /\ ret'.exc = "ValueError"
          /\ log' = <<>>
          /\ gifs' = gifs /\ files' = files /\ dirs' = dirs]_vars

C7_Witness ==
    /\ call.op = "sentinel1_timelapse_with_samples"
    /\ call.a.roi = "geometry"
    /\ call.a.bands = <<"VV">>
    /\ Len(call.a.sample_points.pts) = 6
    /\ ret.exc = "ValueError"
    /\ log = <<>>

Conversions == SelectSeq(log, LAMBDA ev : ev = <<"call", "gif_to_mp4">>)
Encodings == SelectSeq(log, LAMBDA ev : ev[1] = "system" /\ ev[2] = "ffmpeg")

\* C16: a call of sentinel1_timelapse_with_samples or of
\* landsat_timelapse_with_samples with mp4=True invokes gif_to_mp4 at most
\* once, and when the call returns a path, what was encoded is the MP4 of the
\* GIF of that path.
C16_Mp4AtMostOnce ==
    (call.op \in {"sentinel1_timelapse_with_samples", "landsat_timelapse_with_samples"}
        /\ call.a.mp4) =>
        /\ Len(Conversions) <= 1
        /\ ret.exc = "none" => \A i \in 1..Len(Encodings) : Encodings[i][3] = Mp4Of(ret.val)

----------------------------------------------------------------------------
(* Properties of get_pixel_coordinates_from_geo (SpecPixel)                *)

\* C17: the pixel coordinates that get_pixel_coordinates_from_geo returns are
\* within the frame, 0 <= pixel_x <= gif_width - 1 and 0 <= pixel_y <=
\* gif_height - 1, for a point inside and for a point outside of roi_bounds.
C17_PixelWithinFrame ==
    (call.op = "get_pixel_coordinates_from_geo" /\ ret.exc = "none") =>
        /\ 0 <= ret.val[1] /\ ret.val[1] <= call.gif_width - 1
        /\ 0 <= ret.val[2] /\ ret.val[2] <= call.gif_height - 1

\* A point to the north-east of roi_bounds is drawn in the top right corner.
C17_Witness ==
    /\ call.op = "get_pixel_coordinates_from_geo"
    /\ call.roi_bounds = <<0, 0, 2, 1>>
    /\ call.lon = 3 /\ call.lat = 2
    /\ call.gif_width = 200 /\ call.gif_height = 3
    /\ ret = Returns(<<199, 0>>)

====
